---- MODULE Spec2Model ----
(***************************************************************************)
(* CleanAI text cleaner (text-cleaning-app/src/js/textCleaner.js).         *)
(*                                                                         *)
(* A text is the sequence of its UTF-16 code units (none of the regular    *)
(* expressions of the source carries the `u' flag, so every match is made  *)
(* on code units).  Every rule method of TextCleaner is an operator that   *)
(* returns the new text together with the amounts the method adds to       *)
(* this.stats.removedCount and this.stats.replacedCount.                   *)
(***************************************************************************)
EXTENDS Integers, Sequences, FiniteSets, TLC

(***************************************************************************)
(* JavaScript string and regular-expression primitives used by the source. *)
(***************************************************************************)

\* s.slice(n): the text without its first n code units.
Drop(s, n) == SubSeq(s, n + 1, Len(s))

\* Does the literal pattern pat match s at its first code unit?
StartsWith(s, pat) ==
    /\ Len(pat) <= Len(s)
    /\ SubSeq(s, 1, Len(pat)) = pat

\* (s.match(/pat/g) || []).length for a literal pattern: the matches are
\* found left to right and do not overlap.
RECURSIVE MatchCount(_, _)
MatchCount(s, pat) ==
    IF Len(s) < Len(pat) \/ pat = << >> THEN 0
    ELSE IF StartsWith(s, pat) THEN 1 + MatchCount(Drop(s, Len(pat)), pat)
    ELSE MatchCount(Tail(s), pat)

\* s.replace(/pat/g, rep) for a literal pattern and a replacement without `$'.
RECURSIVE ReplaceAll(_, _, _)
ReplaceAll(s, pat, rep) ==
    IF Len(s) < Len(pat) \/ pat = << >> THEN s
    ELSE IF StartsWith(s, pat) THEN rep \o ReplaceAll(Drop(s, Len(pat)), pat, rep)
    ELSE <<Head(s)>> \o ReplaceAll(Tail(s), pat, rep)

\* s.replace(/[class]/g, ''): every code unit of the class is deleted.
RemoveClass(s, class) == SelectSeq(s, LAMBDA c : c \notin class)

\* Length of the run of code unit ch that starts s.
RECURSIVE RunLength(_, _)
RunLength(s, ch) ==
    IF s = << >> \/ Head(s) # ch THEN 0 ELSE 1 + RunLength(Tail(s), ch)

\* The matches of /ch{min,}/g (greedy, so each match is a maximal run of at
\* least min code units ch), as the sequence of their lengths.
RECURSIVE RunMatches(_, _, _)
RunMatches(s, ch, min) ==
    IF s = << >> THEN << >>
    ELSE LET n == RunLength(s, ch) IN
         IF n >= min THEN <<n>> \o RunMatches(Drop(s, n), ch, min)
         ELSE IF n > 0 THEN RunMatches(Drop(s, n), ch, min)
         ELSE RunMatches(Tail(s), ch, min)

\* s.replace(/ch{min,}/g, rep).
RECURSIVE ReplaceRuns(_, _, _, _)
ReplaceRuns(s, ch, min, rep) ==
    IF s = << >> THEN << >>
    ELSE LET n == RunLength(s, ch) IN
         IF n >= min THEN rep \o ReplaceRuns(Drop(s, n), ch, min, rep)
         ELSE IF n > 0 THEN SubSeq(s, 1, n) \o ReplaceRuns(Drop(s, n), ch, min, rep)
         ELSE <<Head(s)>> \o ReplaceRuns(Tail(s), ch, min, rep)

RECURSIVE SumSeq(_)
SumSeq(q) == IF q = << >> THEN 0 ELSE Head(q) + SumSeq(Tail(q))

\* text.split('\n'): always at least one line, the last one possibly empty.
RECURSIVE Split(_, _)
Split(s, sep) ==
    IF \A i \in 1..Len(s) : s[i] # sep THEN <<s>>
    ELSE LET k == CHOOSE i \in 1..Len(s) :
                      /\ s[i] = sep
                      /\ \A j \in 1..(i - 1) : s[j] # sep
         IN <<SubSeq(s, 1, k - 1)>> \o Split(Drop(s, k), sep)

\* lines.join('\n').
RECURSIVE Join(_, _)
Join(lines, sep) ==
    IF Len(lines) = 0 THEN << >>
    ELSE IF Len(lines) = 1 THEN lines[1]
    ELSE lines[1] \o <<sep>> \o Join(Tail(lines), sep)

\* The class \s of a JavaScript regular expression.
JSWhitespace ==
    {9, 10, 11, 12, 13, 32, \h00A0, \h1680, \h2028, \h2029, \h202F, \h205F,
     \h3000, \hFEFF} \cup (\h2000..\h200A)

\* Mutation: / +$/ for /\s+$/, only spaces are dropped.
RECURSIVE TrimEndSpaces(_)
TrimEndSpaces(s) ==
    IF s # << >> /\ s[Len(s)] = 32
    THEN TrimEndSpaces(SubSeq(s, 1, Len(s) - 1))
    ELSE s

\* line.replace(/\s+$/, ''): the whitespace run that ends the text is dropped.
RECURSIVE TrimEnd(_)
TrimEnd(s) ==
    IF s # << >> /\ s[Len(s)] \in JSWhitespace
    THEN TrimEnd(SubSeq(s, 1, Len(s) - 1))
    ELSE s

\* Math.abs.
Abs(n) == IF n < 0 THEN 0 - n ELSE n

(***************************************************************************)
(* The rule methods of TextCleaner.  Each returns the record               *)
(*   [text, removedCount, replacedCount]                                   *)
(* of the returned string and of the local counters the method adds to     *)
(* this.stats before it returns.                                           *)
(***************************************************************************)

\* Mutation: a class that matched counts once, however many characters of
\* it were removed.
RECURSIVE RemoveEachOncePerClass(_, _, _)
RemoveEachOncePerClass(classes, cleaned, removedCount) ==
    IF classes = << >> THEN [text |-> cleaned, count |-> removedCount]
    ELSE LET next == RemoveClass(cleaned, Head(classes)) IN
         RemoveEachOncePerClass(Tail(classes), next,
                                removedCount + (IF Len(cleaned) > Len(next) THEN 1 ELSE 0))

\* The loop `list.forEach(x => { beforeLength = cleaned.length;
\* cleaned = cleaned.replace(x, ''); removedCount += beforeLength -
\* cleaned.length })' over a list of character classes.
RECURSIVE RemoveEach(_, _, _)
RemoveEach(classes, cleaned, removedCount) ==
    IF classes = << >> THEN [text |-> cleaned, count |-> removedCount]
    ELSE LET next == RemoveClass(cleaned, Head(classes)) IN
         RemoveEach(Tail(classes), next, removedCount + (Len(cleaned) - Len(next)))

\* The loop `list.forEach(([regex, replacement]) => { matches =
\* cleaned.match(regex); if (matches) { replacedCount += matches.length;
\* cleaned = cleaned.replace(regex, replacement) } })' over a list of
\* <<literal pattern, replacement>> pairs.
RECURSIVE ReplaceEach(_, _, _)
ReplaceEach(fixes, cleaned, replacedCount) ==
    IF fixes = << >> THEN [text |-> cleaned, count |-> replacedCount]
    ELSE LET regex       == Head(fixes)[1]
             replacement == Head(fixes)[2]
             matches     == MatchCount(cleaned, regex)
         IN IF matches > 0
            THEN ReplaceEach(Tail(fixes), ReplaceAll(cleaned, regex, replacement),
                             replacedCount + matches)
            ELSE ReplaceEach(Tail(fixes), cleaned, replacedCount)

\* Mutation: the byte order mark is missing from the list.
hiddenCharsNoBOM ==
    << {\h200B}, {\h200C}, {\h200D}, {\h2060}, {\h200E}, {\h200F},
       {\h202A}, {\h202B}, {\h202C}, {\h202D}, {\h202E}, {\h061C}, {\h180E},
       {\h034F} >>

hiddenChars ==
    << {\h200B}, {\h200C}, {\h200D}, {\h2060}, {\hFEFF}, {\h200E}, {\h200F},
       {\h202A}, {\h202B}, {\h202C}, {\h202D}, {\h202E}, {\h061C}, {\h180E},
       {\h034F} >>

removeHiddenCharacters(text) ==
    LET r == RemoveEach(hiddenChars, text, 0) IN
    [text |-> r.text, removedCount |-> r.count, replacedCount |-> 0]

\* Mutation: the spaces the text already had are not subtracted.
NonBreakingCountAllSpaces(text, cleaned) ==
    Len(text) - Len(cleaned) + MatchCount(cleaned, <<32>>)

\* replacedCount = beforeLength - cleaned.length
\*                 + (cleaned.match(/ /g) || []).length
\*                 - (text.match(/ /g) || []).length
NonBreakingCount(text, cleaned) ==
    Len(text) - Len(cleaned) + MatchCount(cleaned, <<32>>) - MatchCount(text, <<32>>)

convertNonBreakingSpaces(text) ==
    LET cleaned == ReplaceAll(text, <<\h00A0>>, <<32>>) IN
    [text |-> cleaned, removedCount |-> 0,
     replacedCount |-> Abs(NonBreakingCount(text, cleaned))]

\* Mutation: the minus sign is not replaced.
dashReplacementsNoMinus ==
    << <<(<<\h2014>>), (<<45>>)>>, <<(<<\h2013>>), (<<45>>)>> >>

\* em dash, en dash, minus sign, each counted and then replaced by '-'.
dashReplacements ==
    << <<(<<\h2014>>), (<<45>>)>>, <<(<<\h2013>>), (<<45>>)>>,
       <<(<<\h2212>>), (<<45>>)>> >>

normalizeDashes(text) ==
    LET r == ReplaceEach(dashReplacements, text, 0) IN
    [text |-> r.text, removedCount |-> 0, replacedCount |-> r.count]

\* Mutation: the right single quote is replaced by a grave accent.
quoteReplacementsGrave ==
    << <<(<<\h2018>>), (<<39>>)>>, <<(<<\h2019>>), (<<96>>)>>,
       <<(<<\h201C>>), (<<34>>)>>, <<(<<\h201D>>), (<<34>>)>>,
       <<(<<\h201E>>), (<<34>>)>>, <<(<<\h201A>>), (<<39>>)>> >>

\* U+2018, U+2019 -> ', U+201C, U+201D, U+201E -> ", U+201A -> '.
quoteReplacements ==
    << <<(<<\h2018>>), (<<39>>)>>, <<(<<\h2019>>), (<<39>>)>>,
       <<(<<\h201C>>), (<<34>>)>>, <<(<<\h201D>>), (<<34>>)>>,
       <<(<<\h201E>>), (<<34>>)>>, <<(<<\h201A>>), (<<39>>)>> >>

normalizeQuotes(text) ==
    LET r == ReplaceEach(quoteReplacements, text, 0) IN
    [text |-> r.text, removedCount |-> 0, replacedCount |-> r.count]

\* Mutation: the count is the growth of the text, 2 for each ellipsis.
convertEllipsisDelta(text) ==
    LET cleaned == ReplaceAll(text, <<\h2026>>, <<46, 46, 46>>) IN
    [text |-> cleaned, removedCount |-> 0, replacedCount |-> Len(cleaned) - Len(text)]

convertEllipsis(text) ==
    [text |-> ReplaceAll(text, <<\h2026>>, <<46, 46, 46>>),
     removedCount |-> 0,
     replacedCount |-> MatchCount(text, <<\h2026>>)]

removeTrailingWhitespace(text) ==
    LET lines        == Split(text, 10)
        cleanedLines == [i \in 1..Len(lines) |-> TrimEnd(lines[i])]
        removed      == [i \in 1..Len(lines) |-> Len(lines[i]) - Len(cleanedLines[i])]
    IN [text |-> Join(cleanedLines, 10), removedCount |-> SumSeq(removed),
        replacedCount |-> 0]

mathReplacements ==
    << <<(<<\h00D7>>), (<<42>>)>>,                            \* x -> *
       <<(<<\h00F7>>), (<<47>>)>>,                            \* division -> /
       <<(<<\h2264>>), (<<60, 61>>)>>,                        \* <=
       <<(<<\h2265>>), (<<62, 61>>)>>,                        \* >=
       <<(<<\h2260>>), (<<33, 61>>)>>,                        \* !=
       <<(<<\h00B1>>), (<<43, 47, 45>>)>>,                    \* +/-
       <<(<<\h221E>>), (<<105, 110, 102, 105, 110, 105, 116, 121>>)>>, \* infinity
       <<(<<\h00B0>>), (<<32, 100, 101, 103, 114, 101, 101, 115>>)>>,  \* " degrees"
       <<(<<\h2032>>), (<<39>>)>>,                            \* prime -> '
       <<(<<\h2033>>), (<<34>>)>>,                            \* double prime -> "
       <<(<<\h2030>>), (<<37, 111>>)>>,                       \* %o
       <<(<<\h2211>>), (<<115, 117, 109>>)>>,                 \* sum
       <<(<<\h220F>>), (<<112, 114, 111, 100, 117, 99, 116>>)>>, \* product
       <<(<<\h221A>>), (<<115, 113, 114, 116>>)>>,            \* sqrt
       <<(<<\h2206>>), (<<100, 101, 108, 116, 97>>)>>,        \* delta
       <<(<<\h03C0>>), (<<112, 105>>)>>,                      \* pi
       <<(<<\h00B5>>), (<<109, 105, 99, 114, 111>>)>> >>      \* micro

normalizeMathSymbols(text) ==
    LET r == ReplaceEach(mathReplacements, text, 0) IN
    [text |-> r.text, removedCount |-> 0, replacedCount |-> r.count]

punctuationFixes ==
    << <<(<<\h201A>>), (<<44>>)>>,      \* single low quotation mark -> ,
       <<(<<\h201E>>), (<<34>>)>>,      \* double low quotation mark -> "
       <<(<<\h2039>>), (<<60>>)>>,      \* <
       <<(<<\h203A>>), (<<62>>)>>,      \* >
       <<(<<\h00AB>>), (<<60, 60>>)>>,  \* <<
       <<(<<\h00BB>>), (<<62, 62>>)>>,  \* >>
       <<(<<\h00A1>>), (<<33>>)>>,      \* inverted ! -> !
       <<(<<\h00BF>>), (<<63>>)>>,      \* inverted ? -> ?
       <<(<<\h203E>>), (<<95>>)>>,      \* overline -> _
       <<(<<\h2044>>), (<<47>>)>>,      \* fraction slash -> /
       <<(<<\h2215>>), (<<47>>)>>,      \* division slash -> /
       <<(<<\h29F8>>), (<<47>>)>>,      \* big solidus -> /
       <<(<<\h29F9>>), (<<92>>)>>,      \* big reverse solidus -> \
       <<(<<\hFF3C>>), (<<92>>)>>,      \* fullwidth reverse solidus -> \
       <<(<<\hFF0F>>), (<<47>>)>> >>    \* fullwidth solidus -> /

fixUnicodePunctuation(text) ==
    LET r == ReplaceEach(punctuationFixes, text, 0) IN
    [text |-> r.text, removedCount |-> 0, replacedCount |-> r.count]

\* Mutation: the runs of spaces are collapsed before the other space
\* characters are converted.
normalizeSpacingCollapseFirst(text) ==
    LET multiSpaceMatches == RunMatches(text, 32, 2)
        collapsed == ReplaceRuns(text, 32, 2, <<32>>)
        r == ReplaceEach([i \in 1..12 |->
                             <<(<<IF i = 12 THEN \h3000 ELSE \h2000 + (i - 1)>>), <<32>>>>],
                         collapsed, Len(multiSpaceMatches))
    IN [text |-> r.text, removedCount |-> 0, replacedCount |-> r.count]

\* Mutation: every space dropped from a run is counted, not every run.
normalizeSpacingCountsSpaces(text) ==
    LET chars == << (<<\h2000>>), (<<\h2001>>), (<<\h2002>>), (<<\h2003>>),
                    (<<\h2004>>), (<<\h2005>>), (<<\h2006>>), (<<\h2007>>),
                    (<<\h2008>>), (<<\h2009>>), (<<\h200A>>), (<<\h3000>>) >>
        r == ReplaceEach([i \in 1..Len(chars) |-> <<chars[i], <<32>>>>], text, 0)
        multiSpaceMatches == RunMatches(r.text, 32, 2)
    IN IF Len(multiSpaceMatches) > 0
       THEN [text |-> ReplaceRuns(r.text, 32, 2, <<32>>), removedCount |-> 0,
             replacedCount |-> r.count
                 + SumSeq([i \in 1..Len(multiSpaceMatches) |->
                              multiSpaceMatches[i] - 1])]
       ELSE [text |-> r.text, removedCount |-> 0, replacedCount |-> r.count]

\* U+2000..U+200A and U+3000, one regular expression each, all replaced by ' '.
spaceChars ==
    << (<<\h2000>>), (<<\h2001>>), (<<\h2002>>), (<<\h2003>>), (<<\h2004>>),
       (<<\h2005>>), (<<\h2006>>), (<<\h2007>>), (<<\h2008>>), (<<\h2009>>),
       (<<\h200A>>), (<<\h3000>>) >>

normalizeSpacing(text) ==
    LET r == ReplaceEach([i \in 1..Len(spaceChars) |-> <<spaceChars[i], <<32>>>>],
                         text, 0)
        multiSpaceMatches == RunMatches(r.text, 32, 2)
    IN IF Len(multiSpaceMatches) > 0
       THEN [text |-> ReplaceRuns(r.text, 32, 2, <<32>>), removedCount |-> 0,
             replacedCount |-> r.count + Len(multiSpaceMatches)]
       ELSE [text |-> r.text, removedCount |-> 0, replacedCount |-> r.count]

\* Mutation: /\n{4,}/ for /\n{3,}/.
removeAIArtifactsFourOrMore(text) ==
    LET classes == << {\h00AD}, {\hFFFD}, 0..8, 11..12, 14..31, {127}, 128..159 >>
        r == RemoveEach(classes, text, 0)
        excessiveLineBreaks == RunMatches(r.text, 10, 4)
    IN IF Len(excessiveLineBreaks) > 0
       THEN [text |-> ReplaceRuns(r.text, 10, 4, <<10, 10>>),
             removedCount |-> r.count
                 + SumSeq([i \in 1..Len(excessiveLineBreaks) |->
                              excessiveLineBreaks[i] - 2]),
             replacedCount |-> 0]
       ELSE [text |-> r.text, removedCount |-> r.count, replacedCount |-> 0]

artifacts ==
    << {\h00AD}, {\hFFFD}, 0..8, 11..12, 14..31, {127}, 128..159 >>

removeAIArtifacts(text) ==
    LET r == RemoveEach(artifacts, text, 0)
        excessiveLineBreaks == RunMatches(r.text, 10, 3)
    IN IF Len(excessiveLineBreaks) > 0
       THEN [text |-> ReplaceRuns(r.text, 10, 3, <<10, 10>>),
             removedCount |-> r.count
                 + SumSeq([i \in 1..Len(excessiveLineBreaks) |->
                              excessiveLineBreaks[i] - 2]),
             replacedCount |-> 0]
       ELSE [text |-> r.text, removedCount |-> r.count, replacedCount |-> 0]

\* a-circumflex U+00E2, euro sign U+20AC, A-circumflex U+00C2, A-tilde U+00C3.
encodingFixes ==
    << <<(<<\h00E2, \h20AC, \h2122>>), (<<39>>)>>,     \* right single quote
       <<(<<\h00E2, \h20AC, \h0153>>), (<<34>>)>>,     \* left double quote
       <<(<<\h00E2, \h20AC>>),         (<<34>>)>>,     \* right double quote
       <<(<<\h00E2, \h20AC, 34>>),     (<<\h2014>>)>>, \* em dash
       <<(<<\h00E2, \h20AC, 34>>),     (<<\h2013>>)>>, \* en dash
       <<(<<\h00E2, \h20AC, \h00A6>>), (<<46, 46, 46>>)>>, \* ellipsis
       <<(<<\h00C2, 32>>),             (<<32>>)>>,     \* non-breaking space
       <<(<<\h00C3, \h00A1>>),         (<<\h00E1>>)>>, \* a-acute
       <<(<<\h00C3, \h00A9>>),         (<<\h00E9>>)>>, \* e-acute
       <<(<<\h00C3, \h00AD>>),         (<<\h00ED>>)>>, \* i-acute
       <<(<<\h00C3, \h00B3>>),         (<<\h00F3>>)>>, \* o-acute
       <<(<<\h00C3, \h00BA>>),         (<<\h00FA>>)>>, \* u-acute
       <<(<<\h00C3, \h00B1>>),         (<<\h00F1>>)>>, \* n-tilde
       <<(<<\h00E2, \h201E, \h00A2>>), (<<\h2122>>)>>, \* trademark
       <<(<<\h00C2, \h00A9>>),         (<<\h00A9>>)>>, \* copyright
       <<(<<\h00C2, \h00AE>>),         (<<\h00AE>>)>> >> \* registered

fixEncodingIssues(text) ==
    LET r == ReplaceEach(encodingFixes, text, 0) IN
    [text |-> r.text, removedCount |-> 0, replacedCount |-> r.count]

(***************************************************************************)
(* JavaScript values passed as the `text' argument.  A string carries its  *)
(* code units; the other values carry what the guard of cleanText reads:   *)
(* their typeof and their truthiness.                                      *)
(***************************************************************************)
Str(s) == [type |-> "string", truthy |-> (s # << >>), val |-> s]

JSUndefined == [type |-> "undefined", truthy |-> FALSE, val |-> << >>]
JSNull      == [type |-> "object", truthy |-> FALSE, val |-> << >>]
JSZero      == [type |-> "number", truthy |-> FALSE, val |-> <<0>>]
JSNumber    == [type |-> "number", truthy |-> TRUE, val |-> <<42>>]
JSTrue      == [type |-> "boolean", truthy |-> TRUE, val |-> <<1>>]
JSObject    == [type |-> "object", truthy |-> TRUE, val |-> << >>]

NonStrings == {JSUndefined, JSNull, JSZero, JSNumber, JSTrue, JSObject}

\* Mutation: the encoding repair second and the trailing whitespace last.
PipelineRepairFirst ==
    << [option |-> "removeHiddenChars",     method |-> "removeHiddenCharacters"],
       [option |-> "fixEncodingIssues",     method |-> "fixEncodingIssues"],
       [option |-> "convertNonBreaking",    method |-> "convertNonBreakingSpaces"],
       [option |-> "normalizeDashes",       method |-> "normalizeDashes"],
       [option |-> "normalizeQuotes",       method |-> "normalizeQuotes"],
       [option |-> "convertEllipsis",       method |-> "convertEllipsis"],
       [option |-> "normalizeMathSymbols",  method |-> "normalizeMathSymbols"],
       [option |-> "fixUnicodePunctuation", method |-> "fixUnicodePunctuation"],
       [option |-> "normalizeSpacing",      method |-> "normalizeSpacing"],
       [option |-> "removeAIArtifacts",     method |-> "removeAIArtifacts"],
       [option |-> "removeTrailing",        method |-> "removeTrailingWhitespace"] >>

(***************************************************************************)
(* cleanText: the option read by each `if' and the method it calls, in the *)
(* order of the statements.                                                *)
(***************************************************************************)
Pipeline ==
    << [option |-> "removeHiddenChars",     method |-> "removeHiddenCharacters"],
       [option |-> "convertNonBreaking",    method |-> "convertNonBreakingSpaces"],
       [option |-> "normalizeDashes",       method |-> "normalizeDashes"],
       [option |-> "normalizeQuotes",       method |-> "normalizeQuotes"],
       [option |-> "convertEllipsis",       method |-> "convertEllipsis"],
       [option |-> "removeTrailing",        method |-> "removeTrailingWhitespace"],
       [option |-> "normalizeMathSymbols",  method |-> "normalizeMathSymbols"],
       [option |-> "fixUnicodePunctuation", method |-> "fixUnicodePunctuation"],
       [option |-> "normalizeSpacing",      method |-> "normalizeSpacing"],
       [option |-> "removeAIArtifacts",     method |-> "removeAIArtifacts"],
       [option |-> "fixEncodingIssues",     method |-> "fixEncodingIssues"] >>

OptionNames == {Pipeline[i].option : i \in 1..Len(Pipeline)}
Methods     == {Pipeline[i].method : i \in 1..Len(Pipeline)}

\* The call this[method](text).
Rule(method, text) ==
    CASE method = "removeHiddenCharacters"   -> removeHiddenCharacters(text)
      [] method = "convertNonBreakingSpaces" -> convertNonBreakingSpaces(text)
      [] method = "normalizeDashes"          -> normalizeDashes(text)
      [] method = "normalizeQuotes"          -> normalizeQuotes(text)
      [] method = "convertEllipsis"          -> convertEllipsis(text)
      [] method = "removeTrailingWhitespace" -> removeTrailingWhitespace(text)
      [] method = "normalizeMathSymbols"     -> normalizeMathSymbols(text)
      [] method = "fixUnicodePunctuation"    -> fixUnicodePunctuation(text)
      [] method = "normalizeSpacing"         -> normalizeSpacing(text)
      [] method = "removeAIArtifacts"        -> removeAIArtifacts(text)
      [] method = "fixEncodingIssues"        -> fixEncodingIssues(text)

\* Mutation: an option that is absent counts as set (`!== false').
OptionSetUnlessFalse(options, option) ==
    option \in options \/ option = "removeHiddenChars"

\* if (options.<option>): the options object is the set of its truthy keys;
\* the default `options = {}' is the empty set.
OptionSet(options, option) == option \in options

\* Mutation: the guard tests only `!text'.
InvalidTextFalsy(text) == ~text.truthy

\* if (!text || typeof text !== 'string')
InvalidText(text) == (~text.truthy) \/ text.type # "string"

(***************************************************************************)
(* Objects.  this.stats is a reference to a statistics object; resetStats  *)
(* and the object literals of cleanText allocate new ones.  An object that *)
(* no reference reaches any more is garbage and is cleared.                *)
(***************************************************************************)
NumCallers == 2
Callers    == 1..NumCallers
Oids       == 1..(NumCallers + 2)

ZeroStats ==
    [removedCount |-> 0, replacedCount |-> 0, originalLength |-> 0, finalLength |-> 0]

NoResult ==
    [returned |-> FALSE, text |-> JSUndefined, options |-> {},
     cleanedText |-> << >>, stats |-> 0]

VARIABLES
    heap,         \* the statistics objects: Oids -> record of the four fields
    thisStats,    \* this.stats: the object the rule methods add to
    pc,           \* "idle" | "entry" | "rule" | "finish": position in cleanText;
                  \*   "preview" | "preturn": position in previewChanges
    ip,           \* in "rule", "preview": the index of the `if' reached
    caller,       \* who made the call in progress
    text,         \* cleanText's argument text
    options,      \* cleanText's argument options
    cleanedText,  \* cleanText's local cleanedText
    applied,      \* the rules the call has run: [option, method, input, output]
    statsBefore,  \* the fields of this.stats when the call was made
    results,      \* per caller: the last call it made and the object returned
    ncalls,       \* calls made on the cleaner so far
    dmethod,      \* a rule method called directly, and
    dtext,        \*   the string last passed to it or returned by it,
    dcount,       \*   and how often it has been applied
    ptext,        \* previewChanges's argument text
    poptions,     \* previewChanges's argument options
    issues,       \* previewChanges's local issues
    previews      \* the calls of previewChanges that ended, and how

\* The page: the timers of the window, the closures and the field of Utils,
\* and the elements App reads and writes.
VARIABLES
    now,          \* the time, in milliseconds since the page was loaded
    timers,       \* the timers pending, in the order setTimeout queued them
    nextTimer,    \* the identifier setTimeout returns next
    nevents,      \* calls and user events so far
    debounced,    \* a function debounce returned: wait, immediate, timeout
    throttled,    \* a function throttle returned: limit, inThrottle
    log,          \* the calls of such a function and the invocations of func
    body,         \* the notification elements in document.body, in order
    notificationTimeout, \* this.notificationTimeout of Utils (0: null)
    nextElement,  \* the element document.createElement returns next
    page          \* the elements of App: input, output, checkboxes, statistics

cleanerVars == <<heap, thisStats, pc, ip, caller, text, options, cleanedText, applied,
                 statsBefore, results, ncalls, dmethod, dtext, dcount,
                 ptext, poptions, issues, previews>>

pageVars == <<now, timers, nextTimer, nevents, debounced, throttled, log, body,
              notificationTimeout, nextElement, page>>

vars == <<cleanerVars, pageVars>>

callVars   == <<pc, ip, caller, text, options, cleanedText, applied, statsBefore>>
directVars == <<dmethod, dtext, dcount>>
previewVars == <<ptext, poptions, issues, previews>>

\* The objects some reference reaches (0 is no object: the caller holds no
\* result yet).
Live(ts, res) == ({ts} \cup {res[c].stats : c \in Callers}) \ {0}

\* Garbage collection.
Collect(h, ts, res) ==
    [o \in Oids |-> IF o \in Live(ts, res) THEN h[o] ELSE ZeroStats]

\* A new object: an identity no live reference holds.
NewObject(ts, res) ==
    CHOOSE o \in Oids : /\ o \notin Live(ts, res)
                        /\ \A p \in Oids : p \notin Live(ts, res) => o <= p

\* constructor(): this.stats = { removedCount: 0, ... }.
Constructed ==
    /\ thisStats = 1
    /\ heap = [o \in Oids |-> ZeroStats]
    /\ results = [c \in Callers |-> NoResult]
    /\ ncalls = 0

\* Mutation: resetStats leaves this.stats as it is.
resetStatsKeep(h, ts, res) == [heap |-> h, ref |-> ts]

\* resetStats(): this.stats = { removedCount: 0, replacedCount: 0,
\* originalLength: 0, finalLength: 0 }.  Returns the heap and this.stats.
resetStats(h, ts, res) ==
    LET o == NewObject(ts, res) IN
    [heap |-> [h EXCEPT ![o] = ZeroStats], ref |-> o]

\* Mutation: cleanText returns this.stats itself, not a copy.
ShareStats(h, ts, res) == [heap |-> h, ref |-> ts]

\* { ...this.stats }: a new object with the fields of this.stats.
SpreadStats(h, ts, res) ==
    LET o == NewObject(ts, res) IN
    [heap |-> [h EXCEPT ![o] = h[ts]], ref |-> o]

\* Mutation: `=' for `+='.
AssignCounts(h, ts, r) ==
    [h EXCEPT ![ts].removedCount  = r.removedCount,
              ![ts].replacedCount = r.replacedCount]

\* this.stats.removedCount += removedCount; this.stats.replacedCount +=
\* replacedCount, at the end of a rule method.
AddCounts(h, ts, r) ==
    [h EXCEPT ![ts].removedCount  = @ + r.removedCount,
              ![ts].replacedCount = @ + r.replacedCount]

\* Mutation: this.resetStats() is called before the guard.
EntryStatsResetFirst(h, ts, res, t) ==
    LET fresh == resetStats(h, ts, res) IN
    IF InvalidText(t) THEN fresh
    ELSE [heap |-> [fresh.heap EXCEPT ![fresh.ref].originalLength = Len(t.val)],
          ref |-> fresh.ref]

\* What the first statements of cleanText do to this.stats: nothing when
\* the guard returns; otherwise this.resetStats() and
\* this.stats.originalLength = text.length.
EntryStats(h, ts, res, t) ==
    IF InvalidText(t) THEN [heap |-> h, ref |-> ts]
    ELSE LET fresh == resetStats(h, ts, res) IN
         [heap |-> [fresh.heap EXCEPT ![fresh.ref].originalLength = Len(t.val)],
          ref |-> fresh.ref]

\* Mutation: the final length is derived from the counters.
RecordFinalLengthFromCounts(h, ts, cleaned) ==
    [h EXCEPT ![ts].finalLength = h[ts].originalLength - h[ts].removedCount]

\* this.stats.finalLength = cleanedText.length.
RecordFinalLength(h, ts, cleaned) ==
    [h EXCEPT ![ts].finalLength = Len(cleaned)]

(***************************************************************************)
(* cleanText(text, options), statement by statement.  The function is      *)
(* synchronous: from its entry to its return no other code of the page     *)
(* runs, so a call begins only when none is in progress.                   *)
(***************************************************************************)

\* A caller calls cleaner.cleanText(t, o).
Call(c, t, o) ==
    /\ pc = "idle"
    /\ pc' = "entry"
    /\ caller' = c
    /\ text' = t
    /\ options' = o
    /\ cleanedText' = << >>
    /\ applied' = << >>
    /\ statsBefore' = heap[thisStats]
    /\ ip' = 0
    /\ ncalls' = ncalls + 1
    /\ UNCHANGED <<pageVars, heap, thisStats, results, directVars, previewVars>>

\* The guard: return { cleanedText: '', stats: { removedCount: 0, ... } }.
\* Otherwise this.resetStats(); this.stats.originalLength = text.length;
\* let cleanedText = text.
Entry ==
    /\ pc = "entry"
    /\ LET entered == EntryStats(heap, thisStats, results, text) IN
       \/ /\ InvalidText(text)
          /\ LET o   == NewObject(entered.ref, results)
                 res == [results EXCEPT ![caller] =
                            [returned |-> TRUE, text |-> text, options |-> options,
                             cleanedText |-> << >>, stats |-> o]]
             IN /\ results' = res
                /\ heap' = Collect([entered.heap EXCEPT ![o] = ZeroStats],
                                   entered.ref, res)
          /\ thisStats' = entered.ref
          /\ pc' = "idle"
          /\ UNCHANGED <<ip, cleanedText>>
       \/ /\ ~InvalidText(text)
          /\ thisStats' = entered.ref
          /\ heap' = Collect(entered.heap, entered.ref, results)
          /\ cleanedText' = text.val
          /\ pc' = "rule"
          /\ ip' = 1
          /\ UNCHANGED results
    /\ UNCHANGED <<pageVars, caller, text, options, applied, statsBefore, ncalls, directVars,
                   previewVars>>

\* The ip-th statement `if (options.X) { cleanedText = this.Y(cleanedText); }'.
RuleStep ==
    /\ pc = "rule"
    /\ LET entry == Pipeline[ip] IN
       \/ /\ OptionSet(options, entry.option)
          /\ LET r == Rule(entry.method, cleanedText) IN
             /\ cleanedText' = r.text
             /\ heap' = AddCounts(heap, thisStats, r)
             /\ applied' = Append(applied, [option |-> entry.option,
                                            method |-> entry.method,
                                            input |-> cleanedText,
                                            output |-> r.text])
       \/ /\ ~OptionSet(options, entry.option)
          /\ UNCHANGED <<cleanedText, heap, applied>>
    /\ IF ip < Len(Pipeline)
       THEN pc' = "rule" /\ ip' = ip + 1
       ELSE pc' = "finish" /\ ip' = 0
    /\ UNCHANGED <<pageVars, thisStats, caller, text, options, statsBefore, results, ncalls,
                   directVars, previewVars>>

\* this.stats.finalLength = cleanedText.length;
\* return { cleanedText: cleanedText, stats: { ...this.stats } }.
Finish ==
    /\ pc = "finish"
    /\ LET h    == RecordFinalLength(heap, thisStats, cleanedText)
           copy == SpreadStats(h, thisStats, results)
           res  == [results EXCEPT ![caller] =
                       [returned |-> TRUE, text |-> text, options |-> options,
                        cleanedText |-> cleanedText, stats |-> copy.ref]]
       IN /\ results' = res
          /\ heap' = Collect(copy.heap, thisStats, res)
    /\ pc' = "idle"
    /\ UNCHANGED <<pageVars, thisStats, ip, caller, text, options, cleanedText, applied,
                   statsBefore, ncalls, directVars, previewVars>>

\* A rule method called directly on the cleaner, cleaner[m](t): it returns
\* the new string and adds its counts to this.stats.
DirectCall(m, t) ==
    /\ pc = "idle"
    /\ LET r == Rule(m, t) IN
       /\ dtext' = r.text
       /\ heap' = AddCounts(heap, thisStats, r)
    /\ dmethod' = m
    /\ dcount' = dcount + 1
    /\ ncalls' = ncalls + 1
    /\ UNCHANGED <<pageVars, thisStats, results, callVars, previewVars>>

(***************************************************************************)
(* previewChanges(text, options), statement by statement.  Each statement  *)
(* `if (options.X) { const matches = text.match(/.../g); if (matches) {    *)
(* issues.push(`${matches.length} ... found`) } }' matches one regular     *)
(* expression, an alternation of character classes, literal sequences and  *)
(* runs, against text.                                                     *)
(***************************************************************************)

\* The code units before which `$' matches under the flag m.
LineTerminators == {10, 13, \h2028, \h2029}

\* The length of the run of \s that s begins with.
RECURSIVE WhitespaceRun(_)
WhitespaceRun(s) ==
    IF s = << >> \/ Head(s) \notin JSWhitespace THEN 0
    ELSE 1 + WhitespaceRun(Tail(s))

\* /\s+$/m at the first code unit of s: the length of the longest run of \s
\* that ends where s ends or before a line terminator; 0 without a match.
TrailingMatch(s) ==
    LET w    == WhitespaceRun(s)
        ends == {e \in 1..w : e = Len(s) \/ s[e + 1] \in LineTerminators}
    IN IF ends = {} THEN 0 ELSE CHOOSE e \in ends : \A f \in ends : f <= e

\* The alternatives of the regular expressions of previewChanges.
Class(set)   == [kind |-> "class",    arg |-> set]
Literal(pat) == [kind |-> "literal",  arg |-> pat]
Run(ch, min) == [kind |-> "run",      arg |-> <<ch, min>>]
Trailing     == [kind |-> "trailing", arg |-> << >>]

\* The length of the match of one alternative at the first code unit of a
\* non-empty s; 0 without a match.
AltLength(s, alt) ==
    CASE alt.kind = "class"    -> IF Head(s) \in alt.arg THEN 1 ELSE 0
      [] alt.kind = "literal"  -> IF StartsWith(s, alt.arg) THEN Len(alt.arg) ELSE 0
      [] alt.kind = "run"      -> LET n == RunLength(s, alt.arg[1]) IN
                                  IF n >= alt.arg[2] THEN n ELSE 0
      [] alt.kind = "trailing" -> TrailingMatch(s)

\* a|b|...: the first alternative that matches decides.
RECURSIVE FirstAlternative(_, _)
FirstAlternative(s, alts) ==
    IF alts = << >> THEN 0
    ELSE LET n == AltLength(s, Head(alts)) IN
         IF n > 0 THEN n ELSE FirstAlternative(s, Tail(alts))

\* (s.match(/a|b|.../g) || []).length: the matches are found left to right
\* and do not overlap.
RECURSIVE RegexMatches(_, _)
RegexMatches(s, alts) ==
    IF s = << >> THEN 0
    ELSE LET n == FirstAlternative(s, alts) IN
         IF n > 0 THEN 1 + RegexMatches(Drop(s, n), alts)
         ELSE RegexMatches(Tail(s), alts)

\* The statements of previewChanges in their order: the option read, the
\* method of cleanText the option enables, the regular expression matched
\* and the text of the issue pushed.  A-tilde followed by one of a class of
\* six is written as six literals.
PreviewChecks ==
    << [option |-> "removeHiddenChars", method |-> "removeHiddenCharacters",
        regex  |-> << Class({\h200B, \h200C, \h200D, \h2060, \hFEFF, \h200E,
                             \h200F, \h202A, \h202B, \h202C, \h202D, \h202E,
                             \h061C, \h180E, \h034F}) >>,
        found  |-> "hidden character(s) found"],
       [option |-> "convertNonBreaking", method |-> "convertNonBreakingSpaces",
        regex  |-> << Literal(<<\h00A0>>) >>,
        found  |-> "non-breaking space(s) found"],
       [option |-> "normalizeDashes", method |-> "normalizeDashes",
        regex  |-> << Class({\h2014, \h2013, \h2212}) >>,
        found  |-> "dash(es) to normalize found"],
       [option |-> "normalizeQuotes", method |-> "normalizeQuotes",
        regex  |-> << Class({\h2018, \h2019, \h201C, \h201D, \h201E, \h201A}) >>,
        found  |-> "smart quote(s) found"],
       [option |-> "convertEllipsis", method |-> "convertEllipsis",
        regex  |-> << Literal(<<\h2026>>) >>,
        found  |-> "ellipsis character(s) found"],
       [option |-> "removeTrailing", method |-> "removeTrailingWhitespace",
        regex  |-> << Trailing >>,
        found  |-> "line(s) with trailing whitespace found"],
       [option |-> "normalizeMathSymbols", method |-> "normalizeMathSymbols",
        regex  |-> << Class({\h00D7, \h00F7, \h2264, \h2265, \h2260, \h00B1,
                             \h221E, \h00B0, \h2032, \h2033, \h2030, \h2211,
                             \h220F, \h221A, \h2206, \h03C0, \h00B5}) >>,
        found  |-> "mathematical symbol(s) found"],
       [option |-> "fixUnicodePunctuation", method |-> "fixUnicodePunctuation",
        regex  |-> << Class({\h201A, \h201E, \h2039, \h203A, \h00AB, \h00BB,
                             \h00A1, \h00BF, \h203E, \h2044, \h2215, \h29F8,
                             \h29F9, \hFF3C, \hFF0F}) >>,
        found  |-> "Unicode punctuation mark(s) found"],
       [option |-> "normalizeSpacing", method |-> "normalizeSpacing",
        regex  |-> << Class((\h2000..\h200A) \cup {\h3000}), Run(32, 2) >>,
        found  |-> "spacing issue(s) found"],
       [option |-> "removeAIArtifacts", method |-> "removeAIArtifacts",
        regex  |-> << Class({\h00AD, \hFFFD, 127} \cup (0..8) \cup (11..12)
                            \cup (14..31) \cup (128..159)),
                      Run(10, 3) >>,
        found  |-> "AI artifact(s) found"],
       [option |-> "fixEncodingIssues", method |-> "fixEncodingIssues",
        regex  |-> << Literal(<<\h00E2, \h20AC, \h2122>>),
                      Literal(<<\h00E2, \h20AC, \h0153>>),
                      Literal(<<\h00E2, \h20AC>>),
                      Literal(<<\h00E2, \h20AC, 34>>),
                      Literal(<<\h00E2, \h20AC, 34>>),
                      Literal(<<\h00E2, \h20AC, \h00A6>>),
                      Literal(<<\h00C2, 32>>),
                      Literal(<<\h00C3, \h00A1>>), Literal(<<\h00C3, \h00E9>>),
                      Literal(<<\h00C3, \h00ED>>), Literal(<<\h00C3, \h00F3>>),
                      Literal(<<\h00C3, \h00FA>>), Literal(<<\h00C3, \h00F1>>),
                      Literal(<<\h00E2, \h201E, \h00A2>>),
                      Literal(<<\h00C2, \h00A9>>), Literal(<<\h00C2, \h00AE>>) >>,
        found  |-> "encoding issue(s) found"] >>

\* Mutation: each check sees the text as the rules of the options read
\* before it leave it.
RECURSIVE PreviewSubjectProgressive(_, _, _)
PreviewSubjectProgressive(t, o, i) ==
    IF i <= 1 THEN t
    ELSE LET before == PreviewSubjectProgressive(t, o, i - 1) IN
         IF OptionSet(o, PreviewChecks[i - 1].option)
         THEN Rule(PreviewChecks[i - 1].method, before).text
         ELSE before

\* What the i-th statement matches its regular expression against: text, the
\* argument, whatever the options are.
PreviewSubject(t, o, i) == t

\* Mutation: the list of the call before is kept.
InitialIssuesKept(last) == last

\* const issues = []; whatever the list of the call before was.
InitialIssues(last) == << >>

\* `${matches.length} ... found': the count and the words after it.
Issue(count, found) == [count |-> count, found |-> found]

\* issues after the i-th statement, its option being set: the issue is
\* pushed if text.match returned matches.
PushIssue(list, t, o, i) ==
    LET matches == RegexMatches(PreviewSubject(t, o, i), PreviewChecks[i].regex) IN
    IF matches > 0 THEN Append(list, Issue(matches, PreviewChecks[i].found))
    ELSE list

\* How a call of previewChanges ended: it returned issues, or text.match
\* threw a TypeError.
PreviewEnded(call, t, o, threw, list) ==
    [call |-> call, text |-> t, options |-> o, threw |-> threw, issues |-> list]

\* cleaner.previewChanges(t, o) is called.
PreviewCall(t, o) ==
    /\ pc = "idle"
    /\ pc' = "preview"
    /\ ip' = 1
    /\ ptext' = t
    /\ poptions' = o
    /\ issues' = InitialIssues(issues)
    /\ ncalls' = ncalls + 1
    /\ UNCHANGED <<pageVars, heap, thisStats, results, caller, text, options, cleanedText,
                   applied, statsBefore, directVars, previews>>

\* The ip-th statement.  text.match is a TypeError unless text is a string.
PreviewStep ==
    /\ pc = "preview"
    /\ \/ /\ ~OptionSet(poptions, PreviewChecks[ip].option)
          /\ IF ip < Len(PreviewChecks)
             THEN pc' = "preview" /\ ip' = ip + 1
             ELSE pc' = "preturn" /\ ip' = 0
          /\ UNCHANGED <<issues, previews>>
       \/ /\ OptionSet(poptions, PreviewChecks[ip].option)
          /\ ptext.type # "string"
          /\ previews' = Append(previews,
                                PreviewEnded(ncalls, ptext, poptions, TRUE, << >>))
          /\ pc' = "idle"
          /\ ip' = 0
          /\ UNCHANGED issues
       \/ /\ OptionSet(poptions, PreviewChecks[ip].option)
          /\ ptext.type = "string"
          /\ issues' = PushIssue(issues, ptext.val, poptions, ip)
          /\ IF ip < Len(PreviewChecks)
             THEN pc' = "preview" /\ ip' = ip + 1
             ELSE pc' = "preturn" /\ ip' = 0
          /\ UNCHANGED previews
    /\ UNCHANGED <<pageVars, heap, thisStats, results, caller, text, options, cleanedText,
                   applied, statsBefore, ncalls, directVars, ptext, poptions>>

\* return issues;
PreviewReturn ==
    /\ pc = "preturn"
    /\ previews' = Append(previews,
                          PreviewEnded(ncalls, ptext, poptions, FALSE, issues))
    /\ pc' = "idle"
    /\ UNCHANGED <<pageVars, heap, thisStats, results, ip, caller, text, options, cleanedText,
                   applied, statsBefore, ncalls, directVars, ptext, poptions, issues>>

(***************************************************************************)
(* Inputs.                                                                 *)
(***************************************************************************)
MaxLen          == 2   \* longest text of the exhaustive part of Texts
MaxEnabled      == 2   \* most options set together (besides all of them)
MaxCalls        == 3   \* calls made on one cleaner in a session
RuleMaxLen      == 3   \* longest text of the exhaustive part of RuleTexts
MaxApplications == 2   \* times a rule method is applied to its own output

StringsOver(alphabet, n) == UNION {[1..k -> alphabet] : k \in 0..n}

\* 'a', space, line feed, no-break space, zero-width space.
Alphabet == {97, 32, 10, \h00A0, \h200B}

\* Texts of the README, of the rule tables and of the preview patterns.
Samples ==
    { <<\h201C, 104, 101, 108, 108, 111, \h2019, 115, \h201D>>,  \* curly "hello's"
      <<97, \h2014, 98, \h2013, 99, \h2212, 100>>,               \* a, b, c, d with dashes
      <<97, \h200B, 98, \hFEFF, 99>>,                            \* hidden characters
      <<108, 49, 32, 32, 32, 10, 108, 50, 9, 10>>,               \* "l1   \nl2\t\n"
      <<97, 10, 10, 10, 10, 10, 98>>,                            \* five line feeds
      <<97, 10, 10, 1, 10, 98>>,                                 \* control character between line feeds
      <<97, 32, 1>>,                                             \* "a ", control character
      <<97, 32, 1, 32, 98>>,                                     \* control character between spaces
      <<97, \h2003, 32, 98>>,                                    \* em space, space
      <<97, 32, 32, 32, 98, 32, 32>>,                            \* runs of spaces
      <<53, \h00B0, 32, \h00D7>>,                                \* 5 degrees, times
      <<97, \h2026>>,                                            \* ellipsis
      <<\h201E, 97, \h201A>>,                                    \* low-9 quotes
      <<\h00E2, \h20AC, \h2122>>,                                \* mojibake of right single quote
      <<\h00E2, \h20AC, 34>>,                                    \* mojibake of a dash
      <<\h00E2, \h20AC, \h00A6>>,                                \* mojibake of ellipsis
      <<\h00E2, \h201E, \h00A2>>,                                \* mojibake of trademark
      <<97, \h00C2, \h00A0, 98>>,                                \* mojibake of no-break space
      <<\h00C2, \h00C2, 32>>,                                    \* twice mis-decoded
      <<\h00C3, \h00C2, \h00A9>>,                                \* twice mis-decoded
      <<97, \h00A0, 32, \h00A0>> }                               \* no-break spaces and a space

Texts == StringsOver(Alphabet, MaxLen) \cup Samples

\* Every value cleanText may be passed as text.
Inputs == {Str(s) : s \in Texts} \cup NonStrings

\* The configurations: up to MaxEnabled options set, or all of them.
Configs ==
    {o \in SUBSET OptionNames : Cardinality(o) <= MaxEnabled} \cup {OptionNames}

\* 'a', space, line feed, a control character, em space, A-circumflex,
\* A-tilde, copyright sign.
RuleAlphabet == {97, 32, 10, 1, \h2003, \h00C2, \h00C3, \h00A9}

RuleTexts == StringsOver(RuleAlphabet, RuleMaxLen) \cup Samples

\* What a session passes: a few texts and configurations.
SessionInputs ==
    { Str(<<97, \h200B, \h00A0>>), Str(<<\h00A0, 32, 10>>), JSNull }

SessionConfigs ==
    { {"removeHiddenChars", "convertNonBreaking"}, {"removeTrailing"} }

SessionMethods == {"removeHiddenCharacters", "convertNonBreakingSpaces"}

(***************************************************************************)
(* Specifications.                                                         *)
(***************************************************************************)
\* No timer is pending.
NoTimers ==
    /\ now = 0
    /\ timers = << >>
    /\ nextTimer = 1
    /\ nevents = 0

\* Utils is constructed (this.notificationTimeout = null) and none of its
\* methods has been called.
NoUtils ==
    /\ debounced = [wait |-> 0, immediate |-> FALSE, timeout |-> 0]
    /\ throttled = [limit |-> 0, inThrottle |-> FALSE]
    /\ log = << >>
    /\ body = << >>
    /\ notificationTimeout = 0
    /\ nextElement = 1

\* No App is constructed.
NoApp ==
    page = [inputText |-> << >>, outputText |-> << >>, checked |-> {},
            statsDisplay |-> "none", stats |-> ZeroStats, cleaning |-> FALSE]

\* The cleaner is used without a page.
NoPage == NoTimers /\ NoUtils /\ NoApp

NoDirect ==
    /\ dmethod = "none"
    /\ dtext = << >>
    /\ dcount = 0

NoPreview ==
    /\ ptext = JSUndefined
    /\ poptions = {}
    /\ issues = << >>
    /\ previews = << >>

Idle ==
    /\ pc = "idle"
    /\ ip = 0
    /\ caller = 1
    /\ text = JSUndefined
    /\ options = {}
    /\ cleanedText = << >>
    /\ applied = << >>
    /\ statsBefore = ZeroStats

\* A session: callers call cleanText and the rule methods of one cleaner.
Init ==
    /\ Constructed
    /\ NoPage
    /\ Idle
    /\ NoDirect
    /\ NoPreview

CallAny ==
    /\ ncalls < MaxCalls
    /\ \E c \in Callers, t \in SessionInputs, o \in SessionConfigs : Call(c, t, o)

DirectAny ==
    /\ ncalls < MaxCalls
    /\ \E m \in SessionMethods, t \in SessionInputs :
          /\ t.type = "string"
          /\ DirectCall(m, t.val)

Next == CallAny \/ Entry \/ RuleStep \/ Finish \/ DirectAny

Spec == Init /\ [][Next]_vars

\* One call cleanText(text, options) on a cleaner just constructed, for
\* every text and configuration.
InitCall ==
    /\ Constructed
    /\ NoPage
    /\ NoDirect
    /\ NoPreview
    /\ pc = "entry"
    /\ ip = 0
    /\ caller = 1
    /\ text \in Inputs
    /\ options \in Configs
    /\ cleanedText = << >>
    /\ applied = << >>
    /\ statsBefore = ZeroStats

NextCall == Entry \/ RuleStep \/ Finish

SpecCall == InitCall /\ [][NextCall]_vars

\* One rule method applied to a text and then to what it returned.
InitRule ==
    /\ Constructed
    /\ NoPage
    /\ Idle
    /\ NoPreview
    /\ dmethod \in Methods
    /\ dtext \in RuleTexts
    /\ dcount = 0

Reapply ==
    /\ dcount < MaxApplications
    /\ DirectCall(dmethod, dtext)

NextRule == Reapply

SpecRule == InitRule /\ [][NextRule]_vars

(***************************************************************************)
(* Properties.                                                             *)
(***************************************************************************)

\* The call in progress has returned to its caller.
CallReturned == pc = "idle" /\ results[caller].returned

\* The value returned to caller c: its text and its statistics object.
ReturnedStats(c) == heap[results[c].stats]

\* The call got past the guard and went through the rule statements.
CallRan == CallReturned /\ text.type = "string" /\ text.val # << >>

AppliedOptions == [i \in 1..Len(applied) |-> applied[i].option]

\* Every rule run so far received the text the one before it returned, the
\* first one the input text.
Chained ==
    \A i \in 1..Len(applied) :
        applied[i].input = IF i = 1 THEN text.val ELSE applied[i - 1].output

\* The returned text is what the last rule returned (the input if none ran).
LastOutput ==
    IF applied = << >> THEN text.val ELSE applied[Len(applied)].output

InOrder(order) ==
    /\ AppliedOptions = SelectSeq(order, LAMBDA o : o \in options)
    /\ Chained
    /\ results[caller].cleanedText = LastOutput

\* HiddenCharacters, EncodingIssues, NonBreakingSpace, Dashes, Quotes,
\* Ellipsis, MathSymbols, UnicodePunctuation, Spacing, AIArtifacts,
\* TrailingWhitespace, by the option that enables each.
CanonicalOrder ==
    << "removeHiddenChars", "fixEncodingIssues", "convertNonBreaking",
       "normalizeDashes", "normalizeQuotes", "convertEllipsis",
       "normalizeMathSymbols", "fixUnicodePunctuation", "normalizeSpacing",
       "removeAIArtifacts", "removeTrailing" >>

\* HiddenCharacters, NonBreakingSpace, Dashes, Quotes, Ellipsis,
\* TrailingWhitespace, MathSymbols, UnicodePunctuation, Spacing, AIArtifacts,
\* EncodingIssues.
StatementOrder ==
    << "removeHiddenChars", "convertNonBreaking", "normalizeDashes",
       "normalizeQuotes", "convertEllipsis", "removeTrailing",
       "normalizeMathSymbols", "fixUnicodePunctuation", "normalizeSpacing",
       "removeAIArtifacts", "fixEncodingIssues" >>

\* C1 as stated: a call on a non-empty string has run exactly the enabled
\* rules in the order HiddenCharacters, EncodingIssues, NonBreakingSpace,
\* Dashes, Quotes, Ellipsis, MathSymbols, UnicodePunctuation, Spacing,
\* AIArtifacts, TrailingWhitespace, each on the output of the one before.
C1_CanonicalOrder == CallRan => InOrder(CanonicalOrder)

\* C1 amended: a call on a non-empty string has run exactly the enabled rules
\* in the order HiddenCharacters, NonBreakingSpace, Dashes, Quotes, Ellipsis,
\* TrailingWhitespace, MathSymbols, UnicodePunctuation, Spacing, AIArtifacts,
\* EncodingIssues, each on the output of the one before; EncodingIssues runs
\* after Dashes, Quotes and Ellipsis, and TrailingWhitespace before the five
\* rules that follow it.
C1_StatementOrder == CallRan => InOrder(StatementOrder)

\* A call with EncodingIssues and Dashes enabled has returned, and a rule
\* changed the text.
C1_Witness ==
    /\ CallRan
    /\ {"fixEncodingIssues", "normalizeDashes"} \subseteq options
    /\ Len(applied) >= 2
    /\ \E i \in 1..Len(applied) : applied[i].output # applied[i].input

\* C2: a call whose text is not a string (undefined, null, a number, a
\* boolean, an object) runs no rule, adds nothing to the statistics of the
\* cleaner, and returns the empty text with the four statistics 0.
C2_InvalidInput ==
    text.type # "string" =>
        /\ pc \in {"entry", "idle"}
        /\ applied = << >>
        /\ heap[thisStats] = ZeroStats
        /\ pc = "idle" =>
              /\ results[caller].returned
              /\ results[caller].cleanedText = << >>
              /\ ReturnedStats(caller) = ZeroStats

\* The call cleanText(42, every option set) has returned.
C2_Witness ==
    /\ CallReturned
    /\ text = JSNumber
    /\ options = OptionNames

\* C3: for a string input the returned originalLength is the length of the
\* input and the returned finalLength the length of the returned text.
C3_Lengths ==
    (CallReturned /\ text.type = "string") =>
        /\ ReturnedStats(caller).originalLength = Len(text.val)
        /\ ReturnedStats(caller).finalLength = Len(results[caller].cleanedText)

\* A call with every option set has returned a text longer than its input.
C3_Witness ==
    /\ CallRan
    /\ options = OptionNames
    /\ Len(results[caller].cleanedText) > Len(text.val)

\* C4: with no option set the call returns the input text, both counters 0
\* and both lengths the length of the input.
C4_AllDisabled ==
    (CallReturned /\ text.type = "string" /\ options = {}) =>
        /\ results[caller].cleanedText = text.val
        /\ ReturnedStats(caller) =
              [removedCount |-> 0, replacedCount |-> 0,
               originalLength |-> Len(text.val), finalLength |-> Len(text.val)]

\* The call with no option set on a text with two hidden characters returned.
C4_Witness ==
    /\ CallReturned
    /\ options = {}
    /\ text = Str(<<97, \h200B, 98, \hFEFF, 99>>)
    /\ applied = << >>

\* s contains a code unit of the class / the literal pattern.
HasAny(s, class) == \E i \in 1..Len(s) : s[i] \in class
Contains(s, pat) ==
    \E i \in 1..(Len(s) - Len(pat) + 1) : SubSeq(s, i, i + Len(pat) - 1) = pat

\* The text contains a character or sequence the rule of the option matches.
RuleMatches(option, s) ==
    CASE option = "removeHiddenChars" ->
            \E i \in 1..Len(hiddenChars) : HasAny(s, hiddenChars[i])
      [] option = "convertNonBreaking" -> HasAny(s, {\h00A0})
      [] option = "normalizeDashes" ->
            \E i \in 1..Len(dashReplacements) : Contains(s, dashReplacements[i][1])
      [] option = "normalizeQuotes" ->
            \E i \in 1..Len(quoteReplacements) : Contains(s, quoteReplacements[i][1])
      [] option = "convertEllipsis" -> HasAny(s, {\h2026})
      [] option = "removeTrailing" ->
            LET lines == Split(s, 10) IN
            \E i \in 1..Len(lines) :
                lines[i] # << >> /\ lines[i][Len(lines[i])] \in JSWhitespace
      [] option = "normalizeMathSymbols" ->
            \E i \in 1..Len(mathReplacements) : Contains(s, mathReplacements[i][1])
      [] option = "fixUnicodePunctuation" ->
            \E i \in 1..Len(punctuationFixes) : Contains(s, punctuationFixes[i][1])
      [] option = "normalizeSpacing" ->
            \/ \E i \in 1..Len(spaceChars) : Contains(s, spaceChars[i])
            \/ Contains(s, <<32, 32>>)
      [] option = "removeAIArtifacts" ->
            \/ \E i \in 1..Len(artifacts) : HasAny(s, artifacts[i])
            \/ Contains(s, <<10, 10, 10>>)
      [] option = "fixEncodingIssues" ->
            \E i \in 1..Len(encodingFixes) : Contains(s, encodingFixes[i][1])

\* C5: when the text contains nothing that an enabled rule matches, the call
\* returns the text unchanged with removedCount = 0 and replacedCount = 0.
C5_NothingMatched ==
    ( /\ CallReturned
      /\ text.type = "string"
      /\ \A o \in options : ~RuleMatches(o, text.val) ) =>
        /\ results[caller].cleanedText = text.val
        /\ ReturnedStats(caller).removedCount = 0
        /\ ReturnedStats(caller).replacedCount = 0

\* A call on a space and a zero-width space with NonBreakingSpace and Spacing
\* enabled: neither rule matches anything, and both have run.
C5_Witness ==
    /\ CallRan
    /\ text.val = <<32, \h200B>>
    /\ options = {"convertNonBreaking", "normalizeSpacing"}
    /\ Len(applied) = 2

\* C6 as stated: every rule method is idempotent: applied to the text it
\* returned, it returns that text again.
C6_Idempotent ==
    [][(dcount >= 1 /\ dcount' = dcount + 1) => dtext' = dtext]_vars

\* C6 amended: every rule method other than fixEncodingIssues is idempotent
\* (HiddenCharacters, NonBreakingSpace, Dashes, Quotes, Ellipsis,
\* TrailingWhitespace, MathSymbols, UnicodePunctuation, Spacing, AIArtifacts).
C6_IdempotentExceptEncoding ==
    [][(dcount >= 1 /\ dcount' = dcount + 1 /\ dmethod # "fixEncodingIssues")
          => dtext' = dtext]_vars

\* normalizeSpacing has been applied twice, and it replaced something.
C6_Witness ==
    /\ dcount = 2
    /\ dmethod = "normalizeSpacing"
    /\ heap[thisStats].replacedCount > 0

\* The counts of the rules the call in progress has run, on the texts it ran
\* them on.
AppliedRemoved ==
    SumSeq([i \in 1..Len(applied) |->
               Rule(applied[i].method, applied[i].input).removedCount])
AppliedReplaced ==
    SumSeq([i \in 1..Len(applied) |->
               Rule(applied[i].method, applied[i].input).replacedCount])

\* C7: the object a call accumulates in was allocated by that call: no
\* result handed to a caller is this.stats, no two callers hold the same
\* statistics object, and the counters of the call in progress, like those it
\* returns, are the counts of the rules it ran on its own text, whatever
\* calls the callers made before.
C7_OwnAccumulator ==
    /\ \A c \in Callers : results[c].returned => results[c].stats # thisStats
    /\ \A c, d \in Callers :
          (c # d /\ results[c].returned /\ results[d].returned)
              => results[c].stats # results[d].stats
    /\ pc \in {"rule", "finish"} =>
          /\ heap[thisStats].removedCount = AppliedRemoved
          /\ heap[thisStats].replacedCount = AppliedReplaced
    /\ CallRan =>
          /\ ReturnedStats(caller).removedCount = AppliedRemoved
          /\ ReturnedStats(caller).replacedCount = AppliedReplaced

\* Two callers have each got a result, for different texts, the second one
\* with counts of its own.
C7_Witness ==
    /\ pc = "idle"
    /\ results[1].returned /\ results[2].returned
    /\ results[1].text # results[2].text
    /\ statsBefore.removedCount > 0
    /\ ReturnedStats(caller).replacedCount > 0

\* C8 as stated: when a call returns, the stats field of the cleaner is what
\* it was when the call was made.
C8_NoSideEffect ==
    [][(pc # "idle" /\ pc' = "idle") => heap'[thisStats'] = statsBefore]_vars

\* The return of a call: nothing held by the other callers changes; a call
\* rejected by the guard leaves this.stats as it was; any other call leaves
\* in it an object no caller holds, whose four fields equal the statistics
\* it returns.
ReturnChangesOnlyStats ==
    (pc # "idle" /\ pc' = "idle") =>
        /\ \A c \in Callers \ {caller} :
              /\ results'[c] = results[c]
              /\ results[c].returned =>
                    heap'[results[c].stats] = heap[results[c].stats]
        /\ (text.type # "string" \/ text.val = << >>) =>
              /\ thisStats' = thisStats
              /\ heap'[thisStats'] = statsBefore
        /\ (text.type = "string" /\ text.val # << >>) =>
              /\ heap'[thisStats'] = heap'[results'[caller].stats]
              /\ \A c \in Callers :
                    results'[c].returned => results'[c].stats # thisStats'

\* C8 amended: a call changes nothing of the cleaner but its stats field, and
\* nothing held by the other callers: a call rejected by the guard leaves the
\* field as it was; any other call leaves in it an object no caller holds,
\* whose four fields equal the statistics it returns.
C8_OnlyStatsField == [][ReturnChangesOnlyStats]_vars

\* A second call has returned, with counts, on a cleaner whose stats field
\* held other values when it was made.
C8_Witness ==
    /\ CallRan
    /\ ncalls >= 2
    /\ heap[thisStats] = ReturnedStats(caller)
    /\ heap[thisStats].removedCount > 0
    /\ statsBefore # ZeroStats
    /\ statsBefore # heap[thisStats]

\* cleanText(t, o) on a cleaner just constructed: the rule statements from
\* the i-th on, given the text and the counters so far.
RECURSIVE RulesFrom(_, _, _, _, _)
RulesFrom(i, o, cleaned, removed, replaced) ==
    IF i > Len(StatementOrder)
    THEN [cleanedText |-> cleaned, removedCount |-> removed, replacedCount |-> replaced]
    ELSE IF StatementOrder[i] \in o
    THEN LET m == (CHOOSE k \in 1..Len(Pipeline) :
                      Pipeline[k].option = StatementOrder[i])
             r == Rule(Pipeline[m].method, cleaned)
         IN RulesFrom(i + 1, o, r.text, removed + r.removedCount,
                      replaced + r.replacedCount)
    ELSE RulesFrom(i + 1, o, cleaned, removed, replaced)

OnNewCleaner(t, o) ==
    IF t.type # "string" \/ t.val = << >>
    THEN [cleanedText |-> << >>, stats |-> ZeroStats]
    ELSE LET r == RulesFrom(1, o, t.val, 0, 0) IN
         [cleanedText |-> r.cleanedText,
          stats |-> [removedCount |-> r.removedCount,
                     replacedCount |-> r.replacedCount,
                     originalLength |-> Len(t.val),
                     finalLength |-> Len(r.cleanedText)]]

\* C9: whatever calls were made before and are made after, the text and the
\* four statistics a caller holds are those cleanText returns for its text
\* and options on a cleaner just constructed.
C9_NothingPersists ==
    \A c \in Callers :
        results[c].returned =>
            LET new == OnNewCleaner(results[c].text, results[c].options) IN
            /\ results[c].cleanedText = new.cleanedText
            /\ ReturnedStats(c) = new.stats

\* A caller holds a result with counts, got when this.stats had counts from
\* a rule method called directly, and a rule method has been called since.
C9_Witness ==
    /\ pc = "idle"
    /\ results[caller].returned
    /\ ReturnedStats(caller).replacedCount > 0
    /\ statsBefore # ZeroStats
    /\ heap[thisStats] # ReturnedStats(caller)
    /\ dcount >= 2
    /\ ncalls = MaxCalls

\* A statement of a call: neither counter decreases, and the statement of an
\* option that is not set changes neither the counters nor the text.
CountersGrow ==
    pc \in {"rule", "finish"} =>
        /\ heap'[thisStats'].removedCount >= heap[thisStats].removedCount
        /\ heap'[thisStats'].replacedCount >= heap[thisStats].replacedCount
        /\ (pc = "rule" /\ Pipeline[ip].option \notin options) =>
              /\ heap'[thisStats'].removedCount = heap[thisStats].removedCount
              /\ heap'[thisStats'].replacedCount = heap[thisStats].replacedCount
              /\ cleanedText' = cleanedText

\* C10: from one statement of a call to the next neither counter decreases,
\* and the statement of an option that is not set changes neither the
\* counters nor the text.
C10_Monotone == [][CountersGrow]_vars

\* A call with some option not set is past its last rule with both counters
\* above 0.
C10_Witness ==
    /\ pc = "finish"
    /\ options # OptionNames
    /\ heap[thisStats].removedCount > 0
    /\ heap[thisStats].replacedCount > 0

\* Some LF-separated line of s ends with a whitespace character.
LineEndsInWhitespace(s) ==
    LET lines == Split(s, 10) IN
    \E i \in 1..Len(lines) :
        /\ lines[i] # << >>
        /\ lines[i][Len(lines[i])] \in JSWhitespace

\* C11: when a call with TrailingWhitespace enabled has returned, no
\* LF-separated line of the text it returned ends with a whitespace
\* character, whatever other categories are enabled.
C11_TrailingLast ==
    (CallRan /\ "removeTrailing" \in options)
        => ~LineEndsInWhitespace(results[caller].cleanedText)

(***************************************************************************)
(* One call with a single category enabled.                                *)
(***************************************************************************)
OnlyMaxLen == 3   \* longest text of the exhaustive part of OnlyTexts

\* 'a', space, tab, line feed, a control character, em dash, minus sign,
\* zero-width space, byte order mark.
OnlyAlphabet == {97, 32, 9, 10, 1, \h2014, \h2212, \h200B, \hFEFF}

QuoteExample    == <<\h201C, 104, 101, 108, 108, 111, \h2019, 115, \h201D>>
DashExample     == <<97, \h2014, 98, \h2013, 99, \h2212, 100>>
HiddenExample   == <<97, \h200B, 98, \hFEFF, 99>>
\* "line1   \nline2\t\n"
TrailingExample ==
    <<108, 105, 110, 101, 49, 32, 32, 32, 10, 108, 105, 110, 101, 50, 9, 10>>
LineFeedExample == <<97, 10, 10, 10, 10, 10, 98>>

\* The mis-decoded sequences of the table of fixEncodingIssues.
EncodingExamples == {encodingFixes[i][1] : i \in 1..Len(encodingFixes)}

OnlyTexts ==
    StringsOver(OnlyAlphabet, OnlyMaxLen)
        \cup {QuoteExample, DashExample, HiddenExample, TrailingExample,
              LineFeedExample}
        \cup EncodingExamples

OnlyConfigs ==
    { {"normalizeQuotes"}, {"normalizeDashes"}, {"removeHiddenChars"},
      {"removeTrailing"}, {"removeAIArtifacts"}, {"fixEncodingIssues"} }

\* cleanText(text, { X: true }) on a cleaner just constructed.
InitOnly ==
    /\ Constructed
    /\ NoPage
    /\ NoDirect
    /\ NoPreview
    /\ pc = "entry"
    /\ ip = 0
    /\ caller = 1
    /\ text \in {Str(t) : t \in OnlyTexts}
    /\ options \in OnlyConfigs
    /\ cleanedText = << >>
    /\ applied = << >>
    /\ statsBefore = ZeroStats

NextOnly == Entry \/ RuleStep \/ Finish

SpecOnly == InitOnly /\ [][NextOnly]_vars

\* A call with only this option set has returned.
OnlyRan(option) == CallRan /\ options = {option}

\* The number of code units of s that are in class.
CountIn(s, class) == Cardinality({i \in 1..Len(s) : s[i] \in class})

\* "hello's", with straight quotes.
QuoteExampleCleaned == <<34, 104, 101, 108, 108, 111, 39, 115, 34>>

\* C15 as stated: with only Quotes enabled, the text U+201C hello U+2019 s
\* U+201D is returned as "hello's" with replacedCount 2.
C15_QuoteExampleTwo ==
    (OnlyRan("normalizeQuotes") /\ text.val = QuoteExample) =>
        /\ results[caller].cleanedText = QuoteExampleCleaned
        /\ ReturnedStats(caller).replacedCount = 2

\* C15 amended: with only Quotes enabled, the text U+201C hello U+2019 s
\* U+201D is returned as "hello's" with replacedCount 3, one for each of the
\* three curly quotes, and removedCount 0.
C15_QuoteExampleThree ==
    (OnlyRan("normalizeQuotes") /\ text.val = QuoteExample) =>
        /\ results[caller].cleanedText = QuoteExampleCleaned
        /\ ReturnedStats(caller).replacedCount = 3
        /\ ReturnedStats(caller).removedCount = 0

\* The call on the quote example has returned, with the text changed.
C15_Witness ==
    /\ OnlyRan("normalizeQuotes")
    /\ text.val = QuoteExample
    /\ results[caller].cleanedText # text.val

\* em dash, en dash, minus sign.
DashCodePoints == {\h2014, \h2013, \h2212}

\* C16: with only Dashes enabled, the returned text is the input with every
\* em dash, en dash and minus sign replaced by '-' and every other code unit
\* as it was, of the same length; replacedCount is the number of those
\* characters in the input and removedCount is 0.
C16_DashesOnly ==
    OnlyRan("normalizeDashes") =>
        /\ results[caller].cleanedText =
              [i \in 1..Len(text.val) |->
                  IF text.val[i] \in DashCodePoints THEN 45 ELSE text.val[i]]
        /\ ReturnedStats(caller).finalLength = ReturnedStats(caller).originalLength
        /\ ReturnedStats(caller).replacedCount = CountIn(text.val, DashCodePoints)
        /\ ReturnedStats(caller).removedCount = 0

\* The call on a, em dash, b, en dash, c, minus, d returned a-b-c-d and 3.
C16_Witness ==
    /\ OnlyRan("normalizeDashes")
    /\ text.val = DashExample
    /\ results[caller].cleanedText = <<97, 45, 98, 45, 99, 45, 100>>
    /\ ReturnedStats(caller).replacedCount = 3

\* The fifteen invisible code points: zero-width space, non-joiner, joiner,
\* word joiner, byte order mark, the directional marks, embeddings and
\* overrides, Arabic letter mark, Mongolian vowel separator, combining
\* grapheme joiner.
HiddenCodePoints ==
    {\h200B, \h200C, \h200D, \h2060, \hFEFF, \h200E, \h200F, \h202A, \h202B,
     \h202C, \h202D, \h202E, \h061C, \h180E, \h034F}

NotHidden(c) == c \notin HiddenCodePoints

\* C17: with only HiddenCharacters enabled, the returned text is the input
\* without its invisible code points, the other code units in their order;
\* removedCount is the number of code units deleted and replacedCount is 0.
C17_HiddenOnly ==
    OnlyRan("removeHiddenChars") =>
        /\ results[caller].cleanedText = SelectSeq(text.val, NotHidden)
        /\ ReturnedStats(caller).removedCount = CountIn(text.val, HiddenCodePoints)
        /\ ReturnedStats(caller).replacedCount = 0

\* The call on a, U+200B, b, U+FEFF, c returned abc and 2.
C17_Witness ==
    /\ OnlyRan("removeHiddenChars")
    /\ text.val = HiddenExample
    /\ results[caller].cleanedText = <<97, 98, 99>>
    /\ ReturnedStats(caller).removedCount = 2

\* C18: with only TrailingWhitespace enabled, the returned text has as many
\* LF-separated lines as the input; each line is the line of the input
\* without the whitespace run that ended it; removedCount is the number of
\* code units stripped over all lines.
C18_TrailingOnly ==
    OnlyRan("removeTrailing") =>
        LET before == Split(text.val, 10)
            after  == Split(results[caller].cleanedText, 10)
        IN /\ Len(after) = Len(before)
           /\ \A i \in 1..Len(before) :
                 /\ Len(after[i]) <= Len(before[i])
                 /\ after[i] = SubSeq(before[i], 1, Len(after[i]))
                 /\ \A k \in (Len(after[i]) + 1)..Len(before[i]) :
                       before[i][k] \in JSWhitespace
                 /\ after[i] # << >> => after[i][Len(after[i])] \notin JSWhitespace
           /\ ReturnedStats(caller).removedCount =
                 Len(text.val) - Len(results[caller].cleanedText)
           /\ ReturnedStats(caller).replacedCount = 0

\* The call on "line1   \nline2\t\n" returned "line1\nline2\n" and 4.
C18_Witness ==
    /\ OnlyRan("removeTrailing")
    /\ text.val = TrailingExample
    /\ results[caller].cleanedText =
          <<108, 105, 110, 101, 49, 10, 108, 105, 110, 101, 50, 10>>
    /\ ReturnedStats(caller).removedCount = 4

\* The code units removeAIArtifacts deletes.
ArtifactCodePoints ==
    {\h00AD, \hFFFD, 127} \cup (0..8) \cup (11..12) \cup (14..31) \cup (128..159)

NotArtifact(c) == c \notin ArtifactCodePoints

\* s with every line feed that follows two line feeds already kept dropped.
RECURSIVE CollapseLineFeeds(_, _)
CollapseLineFeeds(s, kept) ==
    IF s = << >> THEN kept
    ELSE LET n == Len(kept) IN
         IF Head(s) = 10 /\ n >= 2 /\ kept[n] = 10 /\ kept[n - 1] = 10
         THEN CollapseLineFeeds(Tail(s), kept)
         ELSE CollapseLineFeeds(Tail(s), Append(kept, Head(s)))

ThreeLineFeeds(s) ==
    \E i \in 1..(Len(s) - 2) : s[i] = 10 /\ s[i + 1] = 10 /\ s[i + 2] = 10

\* C19: with only AIArtifacts enabled, the returned text is the input
\* without its control characters, every run of 3 or more line feeds of
\* what remains cut to 2 and the shorter runs kept; it never has 3 line
\* feeds in a row; removedCount is the number of control characters deleted
\* plus, for every run cut, its length less 2.
C19_LineFeeds ==
    OnlyRan("removeAIArtifacts") =>
        LET stripped == SelectSeq(text.val, NotArtifact)
            cleaned  == results[caller].cleanedText
        IN /\ cleaned = CollapseLineFeeds(stripped, << >>)
           /\ ~ThreeLineFeeds(cleaned)
           /\ ReturnedStats(caller).removedCount =
                 CountIn(text.val, ArtifactCodePoints)
                     + (Len(stripped) - Len(cleaned))
           /\ ReturnedStats(caller).replacedCount = 0

\* The call on a text with 5 line feeds in a row returned it with 2, and
\* removedCount 3.
C19_Witness ==
    /\ OnlyRan("removeAIArtifacts")
    /\ text.val = LineFeedExample
    /\ results[caller].cleanedText = <<97, 10, 10, 98>>
    /\ ReturnedStats(caller).removedCount = 3

\* C20: with only EncodingIssues enabled, each mis-decoded sequence of the
\* table, passed alone, is returned as the replacement the table pairs with
\* it: no entry is pre-empted by an earlier one.
C20_EveryEntryApplies ==
    \A i \in 1..Len(encodingFixes) :
        (OnlyRan("fixEncodingIssues") /\ text.val = encodingFixes[i][1])
            => results[caller].cleanedText = encodingFixes[i][2]

(***************************************************************************)
(* previewChanges: one call, and sessions of calls of previewChanges and   *)
(* cleanText on one cleaner.                                               *)
(***************************************************************************)

\* One call previewChanges(text, options) on a cleaner just constructed, for
\* every text and configuration.
InitPreview ==
    /\ Constructed
    /\ NoPage
    /\ NoDirect
    /\ pc = "preview"
    /\ ip = 1
    /\ caller = 1
    /\ text = JSUndefined
    /\ options = {}
    /\ cleanedText = << >>
    /\ applied = << >>
    /\ statsBefore = ZeroStats
    /\ ptext \in Inputs
    /\ poptions \in Configs
    /\ issues = << >>
    /\ previews = << >>

NextPreview == PreviewStep \/ PreviewReturn

SpecPreview == InitPreview /\ [][NextPreview]_vars

\* A session of calls of cleanText and previewChanges.
CleanAny ==
    /\ ncalls < MaxCalls
    /\ \E t \in SessionInputs, o \in SessionConfigs : Call(1, t, o)

PreviewAny ==
    /\ ncalls < MaxCalls
    /\ \E t \in SessionInputs, o \in SessionConfigs : PreviewCall(t, o)

NextSession ==
    CleanAny \/ Entry \/ RuleStep \/ Finish \/ PreviewAny \/ PreviewStep \/ PreviewReturn

SpecSession == Init /\ [][NextSession]_vars

\* Two calls of previewChanges with the same arguments ended alike.
Repeatable(ended) ==
    \A i, j \in 1..Len(ended) :
        (ended[i].text = ended[j].text /\ ended[i].options = ended[j].options)
            => /\ ended[i].threw = ended[j].threw
               /\ ended[i].issues = ended[j].issues

\* A step of previewChanges, its call and its return included.
PreviewReadsOnly ==
    (pc \in {"preview", "preturn"} \/ pc' = "preview") =>
        /\ heap' = heap
        /\ thisStats' = thisStats
        /\ results' = results
        /\ pc # "idle" => ptext' = ptext
        /\ Repeatable(previews')

\* C12: no step of previewChanges changes its argument text, the statistics
\* object of the cleaner or a result returned by cleanText, and all the
\* calls of previewChanges with the same text and options end alike, with
\* the same list of issues, whatever calls of cleanText are made in between.
C12_ReadOnlyRepeatable == [][PreviewReadsOnly]_vars

\* previewChanges has returned the same issues twice for the same arguments,
\* with a call of cleanText that left counts in between.
C12_Witness ==
    /\ pc = "idle"
    /\ Len(previews) = 2
    /\ previews[1].text = previews[2].text
    /\ previews[1].options = previews[2].options
    /\ previews[2].call = previews[1].call + 2
    /\ ~previews[2].threw
    /\ previews[2].issues # << >>
    /\ results[1].returned
    /\ heap[thisStats].removedCount > 0

\* previewChanges(t, o) as a function: the statements from the i-th on.
RECURSIVE PreviewFrom(_, _, _, _)
PreviewFrom(i, t, o, list) ==
    IF i > Len(PreviewChecks) THEN list
    ELSE PreviewFrom(i + 1, t, o,
                     IF OptionSet(o, PreviewChecks[i].option)
                     THEN PushIssue(list, t, o, i) ELSE list)

\* The issues with these words in a list.
IssuesFound(list, found) == SelectSeq(list, LAMBDA r : r.found = found)

\* C13: when previewChanges returns, the issue it reports for each option
\* that is set (none, or one with its count) is the issue it reports for
\* the same text when that option is the only one set.
C13_Independent ==
    \A k \in 1..Len(previews) :
        ~previews[k].threw =>
            \A i \in 1..Len(PreviewChecks) :
                OptionSet(previews[k].options, PreviewChecks[i].option) =>
                    IssuesFound(previews[k].issues, PreviewChecks[i].found)
                        = PreviewFrom(1, previews[k].text.val,
                                      {PreviewChecks[i].option}, << >>)

\* previewChanges has returned for a text with two no-break spaces around a
\* space, with NonBreakingSpace and Spacing set: two no-break spaces found
\* and no spacing issue, though the text has a run of spaces once the
\* no-break spaces are converted.
C13_Witness ==
    /\ pc = "idle"
    /\ Len(previews) = 1
    /\ previews[1].text = Str(<<97, \h00A0, 32, \h00A0>>)
    /\ previews[1].options = {"convertNonBreaking", "normalizeSpacing"}
    /\ previews[1].issues = << Issue(2, "non-breaking space(s) found") >>

\* C14: no call ends with an error: previewChanges never throws, and
\* cleanText returns the empty text and zero statistics for a text that is
\* missing or not a string.
C14_NeverThrows ==
    /\ \A k \in 1..Len(previews) : ~previews[k].threw
    /\ \A c \in Callers :
          (results[c].returned /\ results[c].text.type # "string") =>
              /\ results[c].cleanedText = << >>
              /\ ReturnedStats(c) = ZeroStats

(***************************************************************************)
(* Counts, lengths and spacing.                                            *)
(***************************************************************************)

\* The options whose rules replace, and the code points each one replaces.
ReplacingOptions ==
    {"convertNonBreaking", "normalizeDashes", "normalizeQuotes",
     "convertEllipsis", "normalizeMathSymbols", "fixUnicodePunctuation"}

Substituted(option) ==
    CASE option = "convertNonBreaking" -> {\h00A0}
      [] option = "normalizeDashes" -> {\h2014, \h2013, \h2212}
      [] option = "normalizeQuotes" ->
            {\h2018, \h2019, \h201C, \h201D, \h201E, \h201A}
      [] option = "convertEllipsis" -> {\h2026}
      [] option = "normalizeMathSymbols" ->
            {\h00D7, \h00F7, \h2264, \h2265, \h2260, \h00B1, \h221E, \h00B0,
             \h2032, \h2033, \h2030, \h2211, \h220F, \h221A, \h2206, \h03C0,
             \h00B5}
      [] option = "fixUnicodePunctuation" ->
            {\h201A, \h201E, \h2039, \h203A, \h00AB, \h00BB, \h00A1, \h00BF,
             \h203E, \h2044, \h2215, \h29F8, \h29F9, \hFF3C, \hFF0F}

\* C21: a call with one replacing option set (NonBreakingSpace, Dashes,
\* Quotes, Ellipsis, MathSymbols, UnicodePunctuation) returns as
\* replacedCount the number of code points of the input that its rule
\* replaces, whatever the length of the replacements and whatever ASCII
\* spaces the input has.
C21_CountsSubstitutions ==
    \A option \in ReplacingOptions :
        (CallRan /\ options = {option}) =>
            ReturnedStats(caller).replacedCount
                = CountIn(text.val, Substituted(option))

\* NonBreakingSpace alone has returned for a text with two no-break spaces
\* and an ASCII space, with replacedCount 2.
C21_Witness ==
    /\ CallRan
    /\ options = {"convertNonBreaking"}
    /\ text.val = <<97, \h00A0, 32, \h00A0>>
    /\ ReturnedStats(caller).replacedCount = 2

\* The code points normalizeSpacing turns into an ASCII space.
SpaceCodePoints == (\h2000..\h200A) \cup {\h3000}

\* s with those code points as ASCII spaces.
AsSpaces(s) == [i \in 1..Len(s) |-> IF s[i] \in SpaceCodePoints THEN 32 ELSE s[i]]

\* s with every ASCII space that follows an ASCII space dropped.
RECURSIVE CollapseSpaces(_, _)
CollapseSpaces(s, kept) ==
    IF s = << >> THEN kept
    ELSE IF Head(s) = 32 /\ kept # << >> /\ kept[Len(kept)] = 32
    THEN CollapseSpaces(Tail(s), kept)
    ELSE CollapseSpaces(Tail(s), Append(kept, Head(s)))

\* The runs of 2 or more ASCII spaces of s, counted where they begin.
SpaceRuns(s) ==
    Cardinality({i \in 1..(Len(s) - 1) :
                    /\ s[i] = 32
                    /\ s[i + 1] = 32
                    /\ (i = 1 \/ s[i - 1] # 32)})

TwoSpaces(s) == \E i \in 1..(Len(s) - 1) : s[i] = 32 /\ s[i + 1] = 32

\* C22: a call with only Spacing set returns the input with every code point
\* U+2000..U+200A and U+3000 turned into an ASCII space and every run of 2
\* or more ASCII spaces of the result cut to one; the text returned has none
\* of those code points and no two adjacent ASCII spaces; replacedCount is
\* the number of code points converted plus the number of runs cut.
C22_SpacingOnly ==
    (CallRan /\ options = {"normalizeSpacing"}) =>
        LET cleaned == results[caller].cleanedText IN
        /\ cleaned = CollapseSpaces(AsSpaces(text.val), << >>)
        /\ CountIn(cleaned, SpaceCodePoints) = 0
        /\ ~TwoSpaces(cleaned)
        /\ ReturnedStats(caller).replacedCount
              = CountIn(text.val, SpaceCodePoints) + SpaceRuns(AsSpaces(text.val))
        /\ ReturnedStats(caller).removedCount = 0

\* Spacing alone has returned for a, em space, space, b: one code point
\* converted and one run cut.
C22_Witness ==
    /\ CallRan
    /\ options = {"normalizeSpacing"}
    /\ text.val = <<97, \h2003, 32, 98>>
    /\ results[caller].cleanedText = <<97, 32, 98>>
    /\ ReturnedStats(caller).replacedCount = 2

\* The options whose rules either remove characters and count each one, or
\* replace one code unit by one.
LengthOptions ==
    {"removeHiddenChars", "removeAIArtifacts", "removeTrailing",
     "convertNonBreaking", "normalizeDashes", "normalizeQuotes"}

\* C28: a call on a string with only options among HiddenCharacters,
\* AIArtifacts, TrailingWhitespace, NonBreakingSpace, Dashes and Quotes set
\* returns statistics with finalLength = originalLength - removedCount.
C28_LengthAccounting ==
    (CallReturned /\ text.type = "string" /\ options \subseteq LengthOptions) =>
        ReturnedStats(caller).finalLength
            = ReturnedStats(caller).originalLength - ReturnedStats(caller).removedCount

\* Hidden characters and trailing whitespace have each removed one code unit
\* of zero-width space, space, and nothing was left.
C28_Witness ==
    /\ CallRan
    /\ options = {"removeHiddenChars", "removeTrailing"}
    /\ text.val = <<\h200B, 32>>
    /\ ReturnedStats(caller).removedCount = 2
    /\ ReturnedStats(caller).finalLength = 0

\* cleanText(t, {option: true}) returns a text other than t: with one option
\* set the text returned is what the option's method returns for t, and the
\* empty text is returned as it is.
CleanChanges(i, t) == t # << >> /\ Rule(PreviewChecks[i].method, t).text # t

\* C27: when previewChanges returns for a string with one option set, it
\* reports an issue exactly when cleanText with that option set returns a
\* text other than the one passed.
C27_PreviewIffCleanChanges ==
    \A k \in 1..Len(previews) :
        \A i \in 1..Len(PreviewChecks) :
            (/\ ~previews[k].threw
             /\ previews[k].text.type = "string"
             /\ previews[k].options = {PreviewChecks[i].option}) =>
                (previews[k].issues # << >>) <=> CleanChanges(i, previews[k].text.val)

\* C29: a call with Spacing set, whatever else is set, returns a text with
\* no two adjacent ASCII spaces and none of U+2000..U+200A, U+3000.
C29_SpacingSurvives ==
    (CallRan /\ "normalizeSpacing" \in options) =>
        /\ ~TwoSpaces(results[caller].cleanedText)
        /\ CountIn(results[caller].cleanedText, SpaceCodePoints) = 0

(***************************************************************************)
(* Timers.  setTimeout queues a callback that the event loop runs once its *)
(* delay has passed; callbacks and event handlers run to completion, one   *)
(* at a time.  Time passes only while no timer is due, so a timer fires at *)
(* the time it is due; an event that arrives at that very time may be      *)
(* handled before it or after it.                                          *)
(***************************************************************************)

\* The time the page is watched, and the step by which time passes when no
\* timer comes due earlier.
MaxTime == 1200
Pause   == 100

\* Calls of a debounced or throttled function, or of showNotification.
MaxEvents == 3

\* Mutation: clearTimeout cancels nothing.
ClearTimeoutNothing(queue, id) == queue

\* clearTimeout(id): undefined, null and the identifier of a timer that has
\* fired cancel nothing.
ClearTimeout(queue, id) == SelectSeq(queue, LAMBDA t : t.id # id)

\* setTimeout(callback, delay), the callback given by its kind and by the
\* value it closes over; id is the identifier returned.
SetTimeout(queue, id, kind, arg, delay) ==
    Append(queue, [id |-> id, due |-> now + delay, kind |-> kind, arg |-> arg])

Due == {k \in 1..Len(timers) : timers[k].due <= now}

\* The timer the event loop runs next: of those due, the one queued first.
FirstDue == CHOOSE k \in Due : \A j \in Due : k <= j

RemoveAt(queue, k) == SubSeq(queue, 1, k - 1) \o SubSeq(queue, k + 1, Len(queue))

\* The callback of this kind is the next to run.
Fires(kind) == Due # {} /\ timers[FirstDue].kind = kind

\* Time passes by d, not beyond the time until: no timer is due before
\* now + d.
Advance(d, until) ==
    /\ d > 0
    /\ now + d <= until
    /\ \A k \in 1..Len(timers) : timers[k].due >= now + d
    /\ now' = now + d
    /\ UNCHANGED <<cleanerVars, timers, nextTimer, nevents, debounced, throttled,
                   log, body, notificationTimeout, nextElement, page>>

\* Time passes by a pause or up to the time a timer is due.
Elapse(pause, until) ==
    \E d \in {pause} \cup {timers[k].due - now : k \in 1..Len(timers)} :
        Advance(d, until)

Wait == Elapse(Pause, MaxTime)

(***************************************************************************)
(* Utils.debounce and Utils.throttle.  func is any function: the model     *)
(* records when it is invoked and with which arguments.                    *)
(***************************************************************************)

Called(args)  == [kind |-> "call", time |-> now, args |-> args]
Invoked(args) == [kind |-> "invoke", time |-> now, args |-> args]

\* debounce(func, wait, immediate): `let timeout;' and the function returned.
debounce(wait, immediate) == [wait |-> wait, immediate |-> immediate, timeout |-> 0]

\* Mutation: callNow = immediate.
CallNowAlways(d) == d.immediate

\* const callNow = immediate && !timeout
CallNow(d) == d.immediate /\ d.timeout = 0

\* clearTimeout(timeout); timeout = setTimeout(later, wait), later closing
\* over the arguments of this call.
Reschedule(d, queue, id, args) ==
    [debounced |-> [d EXCEPT !.timeout = id],
     timers    |-> SetTimeout(ClearTimeout(queue, d.timeout), id, "later", args, d.wait)]

\* executedFunction(...args) of debounce.
debounceExecuted(args) ==
    /\ nevents < MaxEvents
    /\ nevents' = nevents + 1
    /\ LET r == Reschedule(debounced, timers, nextTimer, args) IN
       /\ debounced' = r.debounced
       /\ timers' = r.timers
    /\ nextTimer' = nextTimer + 1
    /\ log' = IF CallNow(debounced)
              THEN log \o <<Called(args), Invoked(args)>>
              ELSE Append(log, Called(args))
    /\ UNCHANGED <<cleanerVars, now, throttled, body, notificationTimeout,
                   nextElement, page>>

\* later: timeout = null; if (!immediate) func.apply(this, args).
later ==
    /\ Fires("later")
    /\ timers' = RemoveAt(timers, FirstDue)
    /\ debounced' = [debounced EXCEPT !.timeout = 0]
    /\ log' = IF debounced.immediate THEN log
              ELSE Append(log, Invoked(timers[FirstDue].arg))
    /\ UNCHANGED <<cleanerVars, now, nextTimer, nevents, throttled, body,
                   notificationTimeout, nextElement, page>>

\* throttle(func, limit): `let inThrottle;' and the function returned.
throttle(limit) == [limit |-> limit, inThrottle |-> FALSE]

\* Mutation: the function is invoked whether or not a window is open.
ThrottleOpenAlways(t) == TRUE

\* if (!inThrottle)
ThrottleOpen(t) == ~t.inThrottle

\* executedFunction(...args) of throttle.
throttleExecuted(args) ==
    /\ nevents < MaxEvents
    /\ nevents' = nevents + 1
    /\ IF ThrottleOpen(throttled)
       THEN /\ log' = log \o <<Called(args), Invoked(args)>>
            /\ throttled' = [throttled EXCEPT !.inThrottle = TRUE]
            /\ timers' = SetTimeout(timers, nextTimer, "release", 0, throttled.limit)
            /\ nextTimer' = nextTimer + 1
       ELSE /\ log' = Append(log, Called(args))
            /\ UNCHANGED <<throttled, timers, nextTimer>>
    /\ UNCHANGED <<cleanerVars, now, debounced, body, notificationTimeout,
                   nextElement, page>>

\* () => inThrottle = false
release ==
    /\ Fires("release")
    /\ timers' = RemoveAt(timers, FirstDue)
    /\ throttled' = [throttled EXCEPT !.inThrottle = FALSE]
    /\ UNCHANGED <<cleanerVars, now, nextTimer, nevents, debounced, log, body,
                   notificationTimeout, nextElement, page>>

\* The waits and limits the functions are made with, and their arguments.
Delays   == {2 * Pause, 5 * Pause}
NumArgs  == 2
ArgLists == 1..NumArgs

\* A function debounce returned is called now and then.
InitDebounce ==
    /\ Constructed
    /\ Idle
    /\ NoDirect
    /\ NoPreview
    /\ NoTimers
    /\ NoApp
    /\ \E w \in Delays, i \in BOOLEAN : debounced = debounce(w, i)
    /\ throttled = [limit |-> 0, inThrottle |-> FALSE]
    /\ log = << >>
    /\ body = << >>
    /\ notificationTimeout = 0
    /\ nextElement = 1

DebouncedCall == \E a \in ArgLists : debounceExecuted(a)

NextDebounce == DebouncedCall \/ later \/ Wait

SpecDebounce == InitDebounce /\ [][NextDebounce]_vars

\* A function throttle returned is called now and then.
InitThrottle ==
    /\ Constructed
    /\ Idle
    /\ NoDirect
    /\ NoPreview
    /\ NoTimers
    /\ NoApp
    /\ debounced = [wait |-> 0, immediate |-> FALSE, timeout |-> 0]
    /\ \E l \in Delays : throttled = throttle(l)
    /\ log = << >>
    /\ body = << >>
    /\ notificationTimeout = 0
    /\ nextElement = 1

ThrottledCall == \E a \in ArgLists : throttleExecuted(a)

NextThrottle == ThrottledCall \/ release \/ Wait

SpecThrottle == InitThrottle /\ [][NextThrottle]_vars

IsCall(k)   == log[k].kind = "call"
IsInvoke(k) == log[k].kind = "invoke"

\* The k-th entry of the log is an invocation of func made by the call the
\* entry before it records.
InvokedByCall(k) ==
    /\ k > 1
    /\ IsCall(k - 1)
    /\ log[k].args = log[k - 1].args
    /\ log[k].time = log[k - 1].time

\* The call the k-th entry records had func invoked.
CallInvoked(k) == k < Len(log) /\ IsInvoke(k + 1)

\* C23: with immediate false, func is invoked only by the timer of the call
\* made last, wait after that call and with its arguments, so never while a
\* call follows another by less than wait and once for a burst; and once
\* wait has passed since a call with no call after it, func was invoked.
C23_TrailingEdge ==
    ~debounced.immediate =>
        /\ \A k \in 1..Len(log) :
              IsInvoke(k) =>
                  /\ k > 1
                  /\ IsCall(k - 1)
                  /\ log[k].args = log[k - 1].args
                  /\ log[k].time = log[k - 1].time + debounced.wait
        /\ \A k \in 1..Len(log) :
              IsCall(k) =>
                  IF k = Len(log) THEN now <= log[k].time + debounced.wait
                  ELSE IsCall(k + 1) => log[k + 1].time <= log[k].time + debounced.wait

\* Two calls less than wait apart, the second with other arguments, then
\* one invocation, with the arguments of the second.
C23_Witness ==
    /\ ~debounced.immediate
    /\ Len(log) = 3
    /\ IsCall(1) /\ IsCall(2) /\ IsInvoke(3)
    /\ log[2].time > log[1].time
    /\ log[2].time < log[1].time + debounced.wait
    /\ log[1].args # log[2].args
    /\ log[3].args = log[2].args
    /\ timers = << >>

\* C24: with immediate true, func is invoked only within a call, with its
\* arguments, and only if every call before was made wait or more earlier;
\* a call made more than wait after every call before it has func invoked.
C24_LeadingEdge ==
    debounced.immediate =>
        /\ \A k \in 1..Len(log) :
              IsInvoke(k) =>
                  /\ InvokedByCall(k)
                  /\ \A j \in 1..(k - 2) :
                        IsCall(j) => log[j].time + debounced.wait <= log[k].time
        /\ \A k \in 1..Len(log) :
              (/\ IsCall(k)
               /\ \A j \in 1..(k - 1) :
                     IsCall(j) => log[j].time + debounced.wait < log[k].time)
                  => CallInvoked(k)

\* A call that invoked func, and two calls that did not: the second less
\* than wait after the first, the third wait or more after the first and
\* less than wait after the second.
C24_Witness ==
    /\ debounced.immediate
    /\ Len(log) = 4
    /\ IsCall(1) /\ IsInvoke(2) /\ IsCall(3) /\ IsCall(4)
    /\ log[4].time >= log[1].time + debounced.wait
    /\ log[4].time < log[3].time + debounced.wait

\* C25: func is invoked only within a call, with its arguments, and limit
\* or more after the invocation before; a call made more than limit after
\* every invocation before it, the first call among them, has func invoked.
C25_Throttle ==
    /\ \A k \in 1..Len(log) :
          IsInvoke(k) =>
              /\ InvokedByCall(k)
              /\ \A j \in 1..(k - 1) :
                    IsInvoke(j) => log[j].time + throttled.limit <= log[k].time
    /\ \A k \in 1..Len(log) :
          (/\ IsCall(k)
           /\ \A j \in 1..(k - 1) :
                 IsInvoke(j) => log[j].time + throttled.limit < log[k].time)
              => CallInvoked(k)

\* A call that invoked func, a call in its window that was dropped, and a
\* call less than limit after the one dropped that invoked func.
C25_Witness ==
    /\ throttled.limit > 0
    /\ Len(log) = 5
    /\ IsCall(1) /\ IsInvoke(2) /\ IsCall(3) /\ IsCall(4) /\ IsInvoke(5)
    /\ log[3].time > log[1].time
    /\ log[4].time < log[3].time + throttled.limit

(***************************************************************************)
(* Utils.showNotification and Utils.removeNotification.  Every element     *)
(* showNotification creates has the id 'notification';                     *)
(* document.getElementById returns the first element of the document with  *)
(* that id.                                                                *)
(***************************************************************************)

\* The delays of showNotification and removeNotification, in milliseconds.
ShowDelay       == 10
DetachDelay     == 300
DefaultDuration == 3000

\* The time a page with notifications is watched.
MaxNotifyTime == 3700

\* removeNotification(), on the elements, the timers and the field of Utils.
removeNotification(st) ==
    LET found == st.body # << >>
        shown == IF found THEN [st.body EXCEPT ![1].show = FALSE] ELSE st.body
        queue == IF found
                 THEN SetTimeout(st.timers, st.nextTimer, "detach",
                                 st.body[1].el, DetachDelay)
                 ELSE st.timers
    IN [body      |-> shown,
        timers    |-> IF st.notificationTimeout # 0
                      THEN ClearTimeout(queue, st.notificationTimeout)
                      ELSE queue,
        nextTimer |-> IF found THEN st.nextTimer + 1 ELSE st.nextTimer,
        notificationTimeout |-> 0]

Notifications ==
    [body |-> body, timers |-> timers, nextTimer |-> nextTimer,
     notificationTimeout |-> notificationTimeout]

\* showNotification(message, type, duration).
showNotification(duration) ==
    /\ nevents < MaxEvents
    /\ nevents' = nevents + 1
    /\ LET r == removeNotification(Notifications) IN
       /\ body' = Append(r.body, [el |-> nextElement, show |-> FALSE])
       /\ timers' = SetTimeout(SetTimeout(r.timers, r.nextTimer, "show",
                                          nextElement, ShowDelay),
                               r.nextTimer + 1, "auto", 0, duration)
       /\ notificationTimeout' = r.nextTimer + 1
       /\ nextTimer' = r.nextTimer + 2
    /\ nextElement' = nextElement + 1
    /\ UNCHANGED <<cleanerVars, now, debounced, throttled, log, page>>

\* The state after removeNotification() was called.
Removed ==
    LET r == removeNotification(Notifications) IN
    /\ body' = r.body
    /\ timers' = r.timers
    /\ nextTimer' = r.nextTimer
    /\ notificationTimeout' = r.notificationTimeout

\* The click listener of an element in the document.
click ==
    /\ nevents < MaxEvents
    /\ nevents' = nevents + 1
    /\ body # << >>
    /\ Removed
    /\ UNCHANGED <<cleanerVars, now, debounced, throttled, log, nextElement, page>>

\* () => notification.classList.add('show')
show ==
    /\ Fires("show")
    /\ timers' = RemoveAt(timers, FirstDue)
    /\ body' = [k \in 1..Len(body) |->
                   IF body[k].el = timers[FirstDue].arg
                   THEN [body[k] EXCEPT !.show = TRUE] ELSE body[k]]
    /\ UNCHANGED <<cleanerVars, now, nextTimer, nevents, debounced, throttled, log,
                   notificationTimeout, nextElement, page>>

\* () => this.removeNotification(), when the duration has passed.
autoRemove ==
    /\ Fires("auto")
    /\ LET r == removeNotification([Notifications EXCEPT
                                       !.timers = RemoveAt(timers, FirstDue)]) IN
       /\ body' = r.body
       /\ timers' = r.timers
       /\ nextTimer' = r.nextTimer
       /\ notificationTimeout' = r.notificationTimeout
    /\ UNCHANGED <<cleanerVars, now, nevents, debounced, throttled, log,
                   nextElement, page>>

\* if (notification.parentNode) notification.parentNode.removeChild(notification)
detach ==
    /\ Fires("detach")
    /\ timers' = RemoveAt(timers, FirstDue)
    /\ body' = SelectSeq(body, LAMBDA n : n.el # timers[FirstDue].arg)
    /\ UNCHANGED <<cleanerVars, now, nextTimer, nevents, debounced, throttled, log,
                   notificationTimeout, nextElement, page>>

\* The durations passed: the default, and one shorter than the delay of
\* the removal.
Durations == {DefaultDuration, Pause}

InitNotify ==
    /\ Constructed
    /\ Idle
    /\ NoDirect
    /\ NoPreview
    /\ NoPage

Notify == \E d \in Durations : showNotification(d)

NotifyWait == Elapse(Pause, MaxNotifyTime)

NextNotify == Notify \/ click \/ show \/ autoRemove \/ detach \/ NotifyWait

SpecNotify == InitNotify /\ [][NextNotify]_vars

\* Every event so far was a call of showNotification: no element was clicked.
NoClick == nextElement = nevents + 1

\* C26: once every timer has fired, no notification element is left in the
\* document, though none was clicked.
C26_NoneRemains == (timers = << >> /\ NoClick) => body = << >>

(***************************************************************************)
(* App: the input and output areas, the six checkboxes and the handlers    *)
(* bindEvents attaches.  The handlers of Copy and Download and the catch   *)
(* branch of pasteText read the output and show a notification; they write *)
(* neither area and are left to the notifications above.  The cleaner is   *)
(* called with a text that is not blank, and what it returns then depends  *)
(* on its arguments only.                                                  *)
(***************************************************************************)

\* The delays of App, in milliseconds.
DebounceWait  == 500
PasteDelay    == 10
FeedbackDelay == 1500

\* The time the page of App is watched, the step by which time passes when
\* no timer comes due earlier, and the user events in that time.
MaxAppTime  == 2100
AppPause    == 400
MaxUIEvents == 2

\* The six checkboxes, by the option each stands for.
AppOptions ==
    {"removeHiddenChars", "convertNonBreaking", "normalizeDashes",
     "normalizeQuotes", "convertEllipsis", "removeTrailing"}

\* !value.trim()
Blank(value) == \A k \in 1..Len(value) : value[k] \in JSWhitespace

\* clearOutput()
clearOutput(p) == [p EXCEPT !.outputText = << >>, !.statsDisplay = "none"]

\* The rest of App.cleanText() once the cleaner has returned result: the
\* output is set, updateStats and showCleaningFeedback are called.
ShowResult(p, queue, id, result) ==
    [page |-> [p EXCEPT
                  !.outputText = result.cleanedText,
                  !.stats = result.stats,
                  !.statsDisplay =
                      IF result.stats.removedCount > 0
                         \/ result.stats.replacedCount > 0
                      THEN "block" ELSE "none",
                  !.cleaning = TRUE],
     timers |-> SetTimeout(queue, id, "feedback", 0, FeedbackDelay),
     nextTimer |-> id + 1]

\* App.cleanText() with the elements p and the timers queue: the elements,
\* the timers and the next timer identifier after it.
AppCleanText(p, queue, id) ==
    IF Blank(p.inputText)
    THEN [page |-> clearOutput(p), timers |-> queue, nextTimer |-> id]
    ELSE CHOOSE r \in {ShowResult(p, queue, id, result) :
                          result \in {OnNewCleaner(Str(p.inputText), p.checked)}} : TRUE

\* if (this.inputText.value.trim()) this.cleanText()
CleanIfText(p, queue, id) ==
    IF Blank(p.inputText)
    THEN [page |-> p, timers |-> queue, nextTimer |-> id]
    ELSE AppCleanText(p, queue, id)

\* A listener ran and left the elements and the timers as after says.
Handled(after) ==
    /\ nevents < MaxUIEvents
    /\ nevents' = nevents + 1
    /\ \E r \in {after} :
          /\ page' = r.page
          /\ timers' = r.timers
          /\ nextTimer' = r.nextTimer
    /\ UNCHANGED <<cleanerVars, now, debounced, throttled, log, body,
                   notificationTimeout, nextElement>>

\* The user edits the input: the 'input' listener, a debounced function.
TypeText(value) ==
    /\ nevents < MaxUIEvents
    /\ nevents' = nevents + 1
    /\ value # page.inputText
    /\ page' = [page EXCEPT !.inputText = value]
    /\ LET r == Reschedule(debounced, timers, nextTimer, 0) IN
       /\ debounced' = r.debounced
       /\ timers' = r.timers
    /\ nextTimer' = nextTimer + 1
    /\ UNCHANGED <<cleanerVars, now, throttled, log, body, notificationTimeout,
                   nextElement>>

\* The user pastes into the input: the 'paste' listener sets its timer, the
\* paste changes the input, and the 'input' listener runs.
PasteInto(value) ==
    /\ nevents < MaxUIEvents
    /\ nevents' = nevents + 1
    /\ value # << >>
    /\ page' = [page EXCEPT !.inputText = value]
    /\ LET queue == SetTimeout(timers, nextTimer, "paste", 0, PasteDelay)
           r     == Reschedule(debounced, queue, nextTimer + 1, 0)
       IN /\ debounced' = r.debounced
          /\ timers' = r.timers
    /\ nextTimer' = nextTimer + 2
    /\ UNCHANGED <<cleanerVars, now, throttled, log, body, notificationTimeout,
                   nextElement>>

\* The function debounce was given, run by later.
AutoClean ==
    /\ Fires("later")
    /\ debounced' = [debounced EXCEPT !.timeout = 0]
    /\ \E r \in {AppCleanText(page, RemoveAt(timers, FirstDue), nextTimer)} :
          /\ page' = r.page
          /\ timers' = r.timers
          /\ nextTimer' = r.nextTimer
    /\ UNCHANGED <<cleanerVars, now, nevents, throttled, log, body,
                   notificationTimeout, nextElement>>

\* () => this.cleanText(), 10 ms after a paste.
PasteClean ==
    /\ Fires("paste")
    /\ \E r \in {AppCleanText(page, RemoveAt(timers, FirstDue), nextTimer)} :
          /\ page' = r.page
          /\ timers' = r.timers
          /\ nextTimer' = r.nextTimer
    /\ UNCHANGED <<cleanerVars, now, nevents, debounced, throttled, log, body,
                   notificationTimeout, nextElement>>

\* The timer of showCleaningFeedback.
FeedbackEnds ==
    /\ Fires("feedback")
    /\ timers' = RemoveAt(timers, FirstDue)
    /\ page' = [page EXCEPT !.cleaning = FALSE]
    /\ UNCHANGED <<cleanerVars, now, nextTimer, nevents, debounced, throttled, log,
                   body, notificationTimeout, nextElement>>

\* The user checks or unchecks a checkbox: its 'change' listener.
Toggle(option) ==
    Handled(CleanIfText([page EXCEPT
                            !.checked = IF option \in page.checked
                                        THEN page.checked \ {option}
                                        ELSE page.checked \cup {option}],
                        timers, nextTimer))

selectAllOptions ==
    Handled(CleanIfText([page EXCEPT !.checked = AppOptions], timers, nextTimer))

deselectAllOptions ==
    Handled([page |-> clearOutput([page EXCEPT !.checked = {}]),
             timers |-> timers, nextTimer |-> nextTimer])

clearInput ==
    Handled([page |-> clearOutput([page EXCEPT !.inputText = << >>]),
             timers |-> timers, nextTimer |-> nextTimer])

\* The Clean button, and Ctrl+Enter.
CleanClicked == Handled(AppCleanText(page, timers, nextTimer))

\* pasteText(), the clipboard read: the input is set and cleaned.
pasteText(value) ==
    Handled(AppCleanText([page EXCEPT !.inputText = value], timers, nextTimer))

\* What the user types and pastes: nothing, a space, a text with a dash and
\* trailing whitespace.
AppTexts == { << >>, <<32>>, <<97, \h2014, 32>> }

\* new App(): the input is empty, every checkbox is checked.
InitApp ==
    /\ Constructed
    /\ Idle
    /\ NoDirect
    /\ NoPreview
    /\ NoTimers
    /\ debounced = debounce(DebounceWait, FALSE)
    /\ throttled = [limit |-> 0, inThrottle |-> FALSE]
    /\ log = << >>
    /\ body = << >>
    /\ notificationTimeout = 0
    /\ nextElement = 1
    /\ page = [inputText |-> << >>, outputText |-> << >>, checked |-> AppOptions,
               statsDisplay |-> "none", stats |-> ZeroStats, cleaning |-> FALSE]

Typing    == \E v \in AppTexts : TypeText(v)
Pasting   == \E v \in AppTexts : PasteInto(v)
Toggling  == \E o \in AppOptions : Toggle(o)
PasteButton == \E v \in AppTexts : pasteText(v)

AppWait == Elapse(AppPause, MaxAppTime)

NextApp ==
    \/ Typing \/ Pasting \/ Toggling \/ selectAllOptions \/ deselectAllOptions
    \/ clearInput \/ CleanClicked \/ PasteButton
    \/ AutoClean \/ PasteClean \/ FeedbackEnds \/ AppWait

SpecApp == InitApp /\ [][NextApp]_vars

\* No timer of the debounced listener or of a paste is pending.
Settled == \A k \in 1..Len(timers) : timers[k].kind \notin {"later", "paste"}

\* What cleanText returns for the input and the checkboxes as they are.
Expected ==
    IF Blank(page.inputText) THEN << >>
    ELSE OnNewCleaner(Str(page.inputText), page.checked).cleanedText

\* C30: once no debounce or paste timer is pending, the output is empty if
\* the input is blank, and otherwise the text cleanText returns for the
\* input and the checkboxes as they are.
C30_NeverStale == Settled => page.outputText = Expected

====
